---- MODULE Spec2Model ----
(***************************************************************************)
(* FinancialAnalyzerCLI: the normalizer (mapper.standardize_statements),   *)
(* the ratio engine (ratios.calculate_single_period_ratios) and the        *)
(* consistency verifier (verifier.verify_financial_consistency).           *)
(*                                                                         *)
(* Encoding.  Python None / NaN is the empty tuple <<>>, a present number  *)
(* v is <<v>>.  Monetary amounts are integers.  A quotient is the reduced  *)
(* fraction [num, den] with den > 0.  A Python dict is a sequence of       *)
(* [key, value] entries in insertion order.  A DataFrame is a record of    *)
(* its row labels and its columns, each column holding its non-NaN cells.  *)
(***************************************************************************)
EXTENDS Integers, Sequences, FiniteSets, TLC

VARIABLES
    statements,       \* the dict object the caller passes to standardize_statements
    statements_in,    \* its value at the time of the call
    all_period_data,  \* mapper.py:31, as left by the merge loop
    standard_df,      \* the value standardize_statements returned
    pc_map,           \* "ready" before the call, "done" after
    period_data,      \* the canonical vector handed to the ratio engine
    ratios,           \* the value calculate_single_period_ratios returned
    pc_ratio,
    verify_data,      \* the canonical vector handed to the verifier
    results,          \* the value verify_financial_consistency returned
    pc_verify,
    first_df,         \* what an earlier call of standardize_statements returned
    ratio_df,         \* the value calculate_historical_ratios returned
    pc_hist,
    all_company_latest_ratios,  \* main.py:296, the map handed to the aggregator
    sector_agg_ratios,          \* the value calculate_sector_ratios returned
    pc_agg,
    sector_tickers,   \* main.py:283, the tickers of the sector in file order
    ticker_ix,        \* position of the loop of main.py:301 in sector_tickers
    fetch_log,        \* what get_financial_statements returned, call by call
    calls,            \* the components invoked so far, in order
    processed_count,  \* main.py:297
    skipped_count,    \* main.py:298
    skipped_reasons,  \* main.py:299
    pc_main           \* position of analyze_company / analyze_sector

vars == <<statements, statements_in, all_period_data, standard_df, pc_map,
          period_data, ratios, pc_ratio, verify_data, results, pc_verify,
          first_df, ratio_df, pc_hist, all_company_latest_ratios, sector_agg_ratios,
          pc_agg, sector_tickers, ticker_ix, fetch_log, calls, processed_count,
          skipped_count, skipped_reasons, pc_main>>

mapperVars == <<statements, statements_in, all_period_data, standard_df, pc_map, first_df>>
histVars == <<ratio_df, pc_hist>>
aggVars == <<all_company_latest_ratios, sector_agg_ratios, pc_agg>>
mainVars == <<sector_tickers, ticker_ix, fetch_log, calls, processed_count,
              skipped_count, skipped_reasons, pc_main>>
ratioVars == <<period_data, ratios, pc_ratio>>
verifyVars == <<verify_data, results, pc_verify>>

(***************************************************************************)
(* Generic helpers                                                         *)
(***************************************************************************)
None == <<>>
Some(v) == <<v>>
\* a value float() rejects with ValueError / TypeError, such as the string "N/A"
Text == <<0, 0>>
IsNumber(o) == Len(o) = 1
IsNone(o) == o = <<>>
Val(o) == o[1]

Abs(x) == IF x < 0 THEN -x ELSE x
Max2(a, b) == IF a >= b THEN a ELSE b

RECURSIVE SetMax(_)
SetMax(S) == LET x == CHOOSE y \in S : TRUE
             IN IF S = {x} THEN x ELSE Max2(x, SetMax(S \ {x}))

Range(s) == {s[i] : i \in DOMAIN s}

\* Python dict, as a sequence of [key, value] in insertion order
DictKeys(d) == {d[i].key : i \in DOMAIN d}
DictHas(d, k) == \E i \in DOMAIN d : d[i].key = k
DictGet(d, k) == d[CHOOSE i \in DOMAIN d : d[i].key = k].value
DictSet(d, k, v) ==
    IF DictHas(d, k)
    THEN [i \in DOMAIN d |-> IF d[i].key = k THEN [key |-> k, value |-> v] ELSE d[i]]
    ELSE Append(d, [key |-> k, value |-> v])

(***************************************************************************)
(* src/utils/constants.py                                                  *)
(***************************************************************************)
FINANCIAL_ITEM_MAPPING == <<
    [key |-> "revenue", value |-> <<"Total Revenue", "Revenue", "totalRevenue">>],
    [key |-> "cost_of_revenue", value |-> <<"Cost Of Revenue", "Cost of Revenue", "costOfRevenue">>],
    [key |-> "gross_profit", value |-> <<"Gross Profit", "grossProfit">>],
    [key |-> "research_development", value |-> <<"Research Development", "researchDevelopmentExpense">>],
    [key |-> "selling_general_administrative", value |-> <<"Selling General Administrative", "Selling General and Administrative", "sellingGeneralAdministrative", "sellingGeneralAndAdministrative">>],
    [key |-> "operating_expenses", value |-> <<"Operating Expenses", "Total Operating Expenses", "totalOperatingExpenses", "OperatingExpenditures", "Total Operating Expenditures">>],
    [key |-> "operating_income", value |-> <<"Operating Income", "Operating Income or Loss", "operatingIncome">>],
    [key |-> "interest_expense", value |-> <<"Interest Expense", "interestExpense">>],
    [key |-> "income_before_tax", value |-> <<"Income Before Tax", "Pretax Income", "incomeBeforeTax">>],
    [key |-> "income_tax_expense", value |-> <<"Income Tax Expense", "Tax Provision", "incomeTaxExpense">>],
    [key |-> "net_income", value |-> <<"Net Income", "Net Income Applicable To Common Shares", "netIncome", "netIncomeApplicableToCommonShares">>],
    [key |-> "cash", value |-> <<"Cash", "Cash And Cash Equivalents", "cashAndCashEquivalents">>],
    [key |-> "accounts_receivable", value |-> <<"Net Receivables", "Accounts Receivable">>],
    [key |-> "inventory", value |-> <<"Inventory", "inventory">>],
    [key |-> "current_assets", value |-> <<"Total Current Assets", "Current Assets", "totalCurrentAssets">>],
    [key |-> "property_plant_equipment", value |-> <<"Property Plant Equipment Net", "Total Property Plant Equipment", "Property plant and equipment net">>],
    [key |-> "total_assets", value |-> <<"Total Assets", "totalAssets">>],
    [key |-> "accounts_payable", value |-> <<"Accounts Payable">>],
    [key |-> "short_term_debt", value |-> <<"Short Long Term Debt", "Short Term Debt", "Current Debt", "Current Liabilities And Long Term Debt">>],
    [key |-> "current_liabilities", value |-> <<"Total Current Liabilities", "Current Liabilities", "totalCurrentLiabilities">>],
    [key |-> "long_term_debt", value |-> <<"Long Term Debt", "longTermDebt">>],
    [key |-> "total_liabilities", value |-> <<"Total Liab", "Total Liabilities", "totalLiab", "Total Liabilities Net Minority Interest">>],
    [key |-> "common_stock", value |-> <<"Common Stock", "commonStock">>],
    [key |-> "retained_earnings", value |-> <<"Retained Earnings", "retainedEarnings">>],
    [key |-> "total_equity", value |-> <<"Total Stockholder Equity", "Stockholders Equity", "Total Equity", "totalStockholderEquity">>],
    [key |-> "depreciation_amortization", value |-> <<"Depreciation And Amortization", "Depreciation & Amortization", "Depreciation">>],
    [key |-> "operating_cash_flow", value |-> <<"Total Cash From Operating Activities", "Cash Flow From Operating Activities", "totalCashFromOperatingActivities">>],
    [key |-> "capital_expenditures", value |-> <<"Capital Expenditures", "capex">>],
    [key |-> "investing_cash_flow", value |-> <<"Total Cashflows From Investing Activities", "Cash Flow From Investing Activities", "totalCashflowsFromInvestingActivities">>],
    [key |-> "dividends_paid", value |-> <<"Dividends Paid", "dividendsPaid">>],
    [key |-> "issuance_of_stock", value |-> <<"Issuance Of Stock", "Issuance of Common Stock">>],
    [key |-> "repurchase_of_stock", value |-> <<"Repurchase Of Stock", "Repurchase of Common Stock", "Treasury Stock">>],
    [key |-> "financing_cash_flow", value |-> <<"Total Cash From Financing Activities", "Cash Flow From Financing Activities", "totalCashFromFinancingActivities">>],
    [key |-> "change_in_cash", value |-> <<"Change In Cash", "Net Change In Cash", "changeInCash">>],
    [key |-> "liabilities_and_equity", value |-> <<"Total Liabilities And Stockholders Equity">>]
>>

(***************************************************************************)
(* DataFrames and column labels                                            *)
(***************************************************************************)
\* A column label: a pd.Timestamp of calendar day `date`, pd.NaT, or a string
\* that parses to day `date` (date = 0: a string that is no date).
Ts(d) == [type |-> "Timestamp", date |-> d]
NaT == [type |-> "NaT", date |-> 0]
Str(d) == [type |-> "str", date |-> d]

NoDF == [null |-> TRUE, dtindex |-> FALSE, index |-> <<>>, cols |-> <<>>]

\* DataFrame.empty: some axis has length 0
DfEmpty(df) == Len(df.index) = 0 \/ Len(df.cols) = 0

\* pd.to_datetime(label, errors='coerce') for one label
to_datetime(label) ==
    CASE label.type = "Timestamp" -> label
      [] label.type = "NaT" -> NaT
      [] label.type = "str" -> IF label.date > 0 THEN Ts(label.date) ELSE NaT

\* mapper.py:44  df.columns = pd.to_datetime(df.columns, errors='coerce')
CoerceColumns(df) ==
    [df EXCEPT !.dtindex = TRUE,
               !.cols = [j \in DOMAIN df.cols |->
                            [df.cols[j] EXCEPT !.label = to_datetime(df.cols[j].label)]]]

\* mapper.py:45  df.dropna(axis=1, how='all'): a column is dropped when every
\* one of its values is NaN, whatever its label
SelCol(c) == DOMAIN c.cells # {}
DropAllNaColumns(df) == [df EXCEPT !.cols = SelectSeq(df.cols, SelCol)]

(***************************************************************************)
(* src/data_extraction/mapper.py : standardize_statements                  *)
(***************************************************************************)
NullInput == [null |-> TRUE, entries |-> <<>>]
NullMatrix == [null |-> TRUE, columns |-> <<>>, items |-> {}, cell |-> <<>>]

\* mapper.py:27  statements is None or not statements or all(df is None or df.empty ...)
NoUsableStatements(st) ==
    \/ st.null
    \/ Len(st.entries) = 0
    \/ \A s \in DOMAIN st.entries : st.entries[s].df.null \/ DfEmpty(st.entries[s].df)

\* mapper.py:70-78  the rows of one period column, in row order
RECURSIVE MergeRows(_, _, _, _)
MergeRows(raw, df, col, i) ==
    IF i > Len(df.index) THEN raw
    ELSE MergeRows(IF i \in DOMAIN col.cells                      \* pd.notna(value_raw)
                   THEN DictSet(raw, df.index[i], col.cells[i])   \* ['raw'][yf_key] = value_raw
                   ELSE raw,
                   df, col, i + 1)

\* (mutant) a column whose label is no timestamp is merged like any other
RECURSIVE MergeColumns_KeepUnparsed(_, _, _)
MergeColumns_KeepUnparsed(apd, df, j) ==
    IF j > Len(df.cols) THEN apd
    ELSE LET col == df.cols[j]
             period_str == col.label.date
             apd1 == IF DictHas(apd, period_str) THEN apd
                     ELSE DictSet(apd, period_str, <<>>)
             raw == MergeRows(DictGet(apd1, period_str), df, col, 1)
         IN MergeColumns_KeepUnparsed(DictSet(apd1, period_str, raw), df, j + 1)

\* mapper.py:56-78  the period columns of one statement, in column order
RECURSIVE MergeColumns(_, _, _)
MergeColumns(apd, df, j) ==
    IF j > Len(df.cols) THEN apd
    ELSE LET col == df.cols[j]
         IN IF col.label.type # "Timestamp"        \* mapper.py:57
            THEN MergeColumns(apd, df, j + 1)
            ELSE LET period_str == col.label.date  \* strftime('%Y-%m-%d')
                     apd1 == IF DictHas(apd, period_str) THEN apd
                             ELSE DictSet(apd, period_str, <<>>)
                     raw == MergeRows(DictGet(apd1, period_str), df, col, 1)
                 IN MergeColumns(DictSet(apd1, period_str, raw), df, j + 1)

\* mapper.py:41-51  the table whose columns the period loop walks
ConvertedFrame(df) == IF df.dtindex THEN df ELSE DropAllNaColumns(CoerceColumns(df))

\* mapper.py:36-78  one statement of the dict
MergeStatement(apd, df) ==
    IF df.null \/ DfEmpty(df) THEN apd
    ELSE LET d2 == ConvertedFrame(df)
         IN IF DfEmpty(d2) THEN apd ELSE MergeColumns(apd, d2, 1)

RECURSIVE MergeStatements(_, _, _)
MergeStatements(apd, entries, s) ==
    IF s > Len(entries) THEN apd
    ELSE MergeStatements(MergeStatement(apd, entries[s].df), entries, s + 1)

\* mapper.py:31-78
BuildAllPeriodData(st) == MergeStatements(<<>>, st.entries, 1)

\* mapper.py:100-107  first synonym, in declared order, that is a key of the raw bag
RECURSIVE FirstFound(_, _, _)
FirstFound(raw, potential_yf_keys, i) ==
    IF i > Len(potential_yf_keys) THEN None
    ELSE IF DictHas(raw, potential_yf_keys[i])
         THEN Some(DictGet(raw, potential_yf_keys[i]))
         ELSE FirstFound(raw, potential_yf_keys, i + 1)

\* mapper.py:96-119  one period's raw bag to its canonical dict
RECURSIVE StandardizePeriod(_, _, _)
StandardizePeriod(raw, std, m) ==
    IF m > Len(FINANCIAL_ITEM_MAPPING) THEN std
    ELSE LET found == FirstFound(raw, FINANCIAL_ITEM_MAPPING[m].value, 1)
         IN StandardizePeriod(raw,
                IF IsNone(found) THEN std                         \* mapper.py:109
                ELSE LET found_value_raw == Val(found)
                     IN IF IsNumber(found_value_raw)
                        THEN DictSet(std, FINANCIAL_ITEM_MAPPING[m].key,
                                     Val(found_value_raw))        \* mapper.py:111-112
                        ELSE std,                                 \* mapper.py:113-117
                m + 1)

\* (mutant) a period is kept whether or not an item resolved in it
RECURSIVE StandardizePeriods_KeepEmpty(_, _, _)
StandardizePeriods_KeepEmpty(apd, sbp, p) ==
    IF p > Len(apd) THEN sbp
    ELSE LET raw == apd[p].value
             std == IF Len(raw) = 0 THEN <<>> ELSE StandardizePeriod(raw, <<>>, 1)
         IN StandardizePeriods_KeepEmpty(apd, DictSet(sbp, apd[p].key, std), p + 1)

\* mapper.py:88-122
RECURSIVE StandardizePeriods(_, _, _)
StandardizePeriods(apd, sbp, p) ==
    IF p > Len(apd) THEN sbp
    ELSE LET raw == apd[p].value
             std == IF Len(raw) = 0 THEN <<>> ELSE StandardizePeriod(raw, <<>>, 1)
         IN StandardizePeriods(apd,
                IF Len(std) = 0 THEN sbp ELSE DictSet(sbp, apd[p].key, std),
                p + 1)

\* (mutant) the periods sorted ascending
RECURSIVE SortDescending_Ascending(_)
SortDescending_Ascending(S) ==
    IF S = {} THEN <<>>
    ELSE LET m == CHOOSE x \in S : \A y \in S : x <= y
         IN <<m>> \o SortDescending_Ascending(S \ {m})

\* mapper.py:136  sort_index(ascending=False) over distinct dates
RECURSIVE SortDescending(_)
SortDescending(S) ==
    IF S = {} THEN <<>>
    ELSE LET m == SetMax(S) IN <<m>> \o SortDescending(S \ {m})

\* mapper.py:133-139  the final DataFrame: items x periods
FinalFrame(sbp) ==
    [null |-> FALSE,
     columns |-> SortDescending(DictKeys(sbp)),
     items |-> UNION {DictKeys(sbp[p].value) : p \in DOMAIN sbp},
     cell |-> [c \in UNION {{<<k, sbp[p].key>> : k \in DictKeys(sbp[p].value)} : p \in DOMAIN sbp}
                 |-> DictGet(DictGet(sbp, c[2]), c[1])]]

\* (mutant) the two emptiness tests of mapper.py:81 and mapper.py:129 left out
standardize_statements_NoEmptyTest(st) ==
    IF NoUsableStatements(st) THEN NullMatrix
    ELSE FinalFrame(StandardizePeriods(BuildAllPeriodData(st), <<>>, 1))

standardize_statements(st) ==
    IF NoUsableStatements(st) THEN NullMatrix
    ELSE LET apd == BuildAllPeriodData(st)
         IN IF Len(apd) = 0 THEN NullMatrix                   \* mapper.py:81
            ELSE LET sbp == StandardizePeriods(apd, <<>>, 1)
                 IN IF Len(sbp) = 0 THEN NullMatrix           \* mapper.py:129
                    ELSE FinalFrame(sbp)

\* (mutant) the call leaves labels in the caller's table that no later call
\* can read as dates
StatementsAfterCall_Unreadable(st) ==
    IF NoUsableStatements(st) THEN st
    ELSE [st EXCEPT !.entries = [s \in DOMAIN st.entries |->
            LET df == st.entries[s].df
            IN IF df.null \/ DfEmpty(df) \/ df.dtindex THEN st.entries[s]
               ELSE [st.entries[s] EXCEPT !.df =
                        [df EXCEPT !.dtindex = TRUE,
                                   !.cols = [j \in DOMAIN df.cols |->
                                               [df.cols[j] EXCEPT !.label = NaT]]]]]]

\* mapper.py:44 assigns the converted labels to the caller's table
StatementsAfterCall(st) ==
    IF NoUsableStatements(st) THEN st
    ELSE [st EXCEPT !.entries = [s \in DOMAIN st.entries |->
            LET df == st.entries[s].df
            IN IF df.null \/ DfEmpty(df) \/ df.dtindex THEN st.entries[s]
               ELSE [st.entries[s] EXCEPT !.df = CoerceColumns(df)]]]

(***************************************************************************)
(* src/analysis/ratios.py                                                  *)
(***************************************************************************)
RECURSIVE GCD(_, _)
GCD(a, b) == IF b = 0 THEN a ELSE GCD(b, a % b)

\* the quotient n / d (d # 0) as a reduced fraction with a positive denominator
Quotient(n, d) ==
    LET g == GCD(Abs(n), Abs(d))
        sg == IF d < 0 THEN -1 ELSE 1
    IN [num |-> sg * (n \div g), den |-> sg * (d \div g)]

\* (mutant) the zero test of ratios.py:27 left out: a zero denominator gives 0
safe_division_NoZeroTest(numerator, denominator) ==
    IF IsNone(numerator) \/ IsNone(denominator) THEN None
    ELSE IF Val(denominator) = 0 THEN Some([num |-> 0, den |-> 1])
    ELSE Some(Quotient(Val(numerator), Val(denominator)))

\* ratios.py:7-32  _safe_division
safe_division(numerator, denominator) ==
    IF IsNone(numerator) \/ IsNone(denominator) THEN None     \* ratios.py:21
    ELSE IF Val(denominator) = 0 THEN None                    \* ratios.py:27
    ELSE Some(Quotient(Val(numerator), Val(denominator)))     \* ratios.py:29

\* (mutant) the ValueError of float() on a non-numeric item is not caught
EscapingError_ValueError(pd) == pd.null \/ \E k \in DOMAIN pd.data : pd.data[k] = Text

\* ratios.py:55-64  the exception _get lets through: period_data.get of None is
\* an AttributeError, none of TypeError, ValueError and KeyError
EscapingError(pd) == pd.null

\* ratios.py:53-64  _get: the item as a float, None when the key is missing,
\* its value is NaN / None, or float() rejects it
get(pd, key) ==
    IF key \in DOMAIN pd.data /\ IsNumber(pd.data[key]) THEN pd.data[key] ELSE None

\* Python's  (x or 0.0)  for x a float or None
OrZero(o) == IF IsNone(o) THEN 0 ELSE Val(o)

RatioNames == <<"Gross Margin", "Net Margin", "Operating Margin", "Current Ratio",
                "Quick Ratio", "Debt to Equity", "Liabilities to Equity", "Debt Ratio",
                "Return on Equity (ROE)", "Return on Assets (ROA)",
                "Return on Capital Employed (ROCE)", "Inventory Turnover",
                "Asset Turnover", "Receivable Turnover">>

\* (mutant) missing inventory counts as zero: current assets are the numerator
quick_assets_numerator_ReuseCurrentAssets(ca, inv) ==
    IF ~IsNone(ca) THEN Some(Val(ca) - OrZero(inv)) ELSE None

\* ratios.py:99-103
quick_assets_numerator(ca, inv) ==
    IF ~IsNone(ca) /\ ~IsNone(inv) THEN Some(Val(ca) - Val(inv)) ELSE None

\* (mutant) both components missing gives a total debt of zero
total_debt_ZeroWhenMissing(std, ltd) == Some(OrZero(std) + OrZero(ltd))

\* ratios.py:108-110
total_debt(std, ltd) ==
    IF ~IsNone(std) \/ ~IsNone(ltd) THEN Some(OrZero(std) + OrZero(ltd)) ELSE None

\* ratios.py:123-125
capital_employed_denominator(assets, cl) ==
    IF ~IsNone(assets) /\ ~IsNone(cl) THEN Some(Val(assets) - Val(cl)) ELSE None

\* ratios.py:34-142  calculate_single_period_ratios; the final cleanup of
\* ratios.py:137 keeps every finite float and every None as it is
calculate_single_period_ratios(pd) ==
    LET gp == get(pd, "gross_profit")
        rev == get(pd, "revenue")
        ni == get(pd, "net_income")
        oi == get(pd, "operating_income")
        ca == get(pd, "current_assets")
        cl == get(pd, "current_liabilities")
        inv == get(pd, "inventory")
        std == get(pd, "short_term_debt")
        ltd == get(pd, "long_term_debt")
        equity == get(pd, "total_equity")
        liab == get(pd, "total_liabilities")
        assets == get(pd, "total_assets")
        cogs == get(pd, "cost_of_revenue")
        ar == get(pd, "accounts_receivable")
    IN [r \in Range(RatioNames) |->
         CASE r = "Gross Margin" -> safe_division(gp, rev)
           [] r = "Net Margin" -> safe_division(ni, rev)
           [] r = "Operating Margin" -> safe_division(oi, rev)
           [] r = "Current Ratio" -> safe_division(ca, cl)
           [] r = "Quick Ratio" -> safe_division(quick_assets_numerator(ca, inv), cl)
           [] r = "Debt to Equity" -> safe_division(total_debt(std, ltd), equity)
           [] r = "Liabilities to Equity" -> safe_division(liab, equity)
           [] r = "Debt Ratio" -> safe_division(total_debt(std, ltd), assets)
           [] r = "Return on Equity (ROE)" -> safe_division(ni, equity)
           [] r = "Return on Assets (ROA)" -> safe_division(ni, assets)
           [] r = "Return on Capital Employed (ROCE)" ->
                 safe_division(oi, capital_employed_denominator(assets, cl))
           [] r = "Inventory Turnover" -> safe_division(cogs, inv)
           [] r = "Asset Turnover" -> safe_division(rev, assets)
           [] r = "Receivable Turnover" -> safe_division(rev, ar)]

\* the canonical items calculate_single_period_ratios reads (ratios.py:68-88)
RatioKeys == {"gross_profit", "revenue", "net_income", "operating_income",
              "current_assets", "current_liabilities", "cash", "inventory",
              "short_term_debt", "long_term_debt", "total_equity",
              "total_liabilities", "total_assets", "cost_of_revenue",
              "accounts_receivable"}

(***************************************************************************)
(* src/analysis/verifier.py                                                *)
(***************************************************************************)
\* tolerances of the six checks, rel_tol as a fraction
BalanceRelTol == [num |-> 15, den |-> 1000]          \* verifier.py:82   rel_tol=0.015
GrossProfitRelTol == [num |-> 10, den |-> 1000]      \* verifier.py:114  rel_tol=0.01
OperatingIncomeRelTol == [num |-> 50, den |-> 1000]  \* verifier.py:146  rel_tol=0.05
NetIncomeRelTol == [num |-> 15, den |-> 1000]        \* verifier.py:169  rel_tol=0.015
CashFlowRelTol == [num |-> 20, den |-> 1000]         \* verifier.py:191  rel_tol=0.02
CashFlowAbsTol == 1000
CashFloor == [num |-> -1, den |-> 1000000]           \* verifier.py:97   -1e-6

\* (mutant) the absolute tolerance is ignored
isclose_NoAbsTol(a, b, rel_tol, abs_tol) ==
    \/ a = b
    \/ Abs(b - a) * rel_tol.den <= rel_tol.num * Max2(Abs(a), Abs(b))

\* math.isclose(a, b, rel_tol=.., abs_tol=..) on finite numbers:
\* a == b, or |b - a| <= |rel_tol * b|, or <= |rel_tol * a|, or <= abs_tol
isclose(a, b, rel_tol, abs_tol) ==
    \/ a = b
    \/ Abs(b - a) * rel_tol.den <= rel_tol.num * Abs(b)
    \/ Abs(b - a) * rel_tol.den <= rel_tol.num * Abs(a)
    \/ Abs(b - a) <= abs_tol

\* verifier.py:45-67  _get_float
get_float(pd, key) ==
    IF key \in DOMAIN pd.data /\ IsNumber(pd.data[key]) THEN pd.data[key] ELSE None

\* the value of a report entry: True, "Failed (Mismatch: x, y, Diff)" or
\* "Skipped: Missing components (names)"
Passed == [status |-> "Passed", missing |-> <<>>, detail |-> <<>>]
Failed(detail) == [status |-> "Failed", missing |-> <<>>, detail |-> detail]
Skipped(missing) == [status |-> "Skipped", missing |-> missing, detail |-> <<>>]

\* (mutant) every required name is reported once one of them is missing
MissingKeys_All(required) ==
    IF \E n \in DOMAIN required : IsNone(required[n].value)
    THEN [n \in DOMAIN required |-> required[n].key] ELSE <<>>

\* [k for k, v in required.items() if v is None], required a dict in
\* insertion order
RECURSIVE MissingKeys(_)
MissingKeys(required) ==
    IF Len(required) = 0 THEN <<>>
    ELSE (IF IsNone(Head(required).value) THEN <<Head(required).key>> ELSE <<>>)
            \o MissingKeys(Tail(required))

\* the pattern shared by the balance, gross-profit, net-income and cash-flow
\* checks: skipped on a missing input, else passed or failed on isclose(a, b)
IdentityCheck(required, a, b, rel_tol, abs_tol) ==
    IF Len(MissingKeys(required)) = 0
    THEN IF isclose(Val(a), Val(b), rel_tol, abs_tol) THEN Passed
         ELSE Failed(<<Val(a), Val(b), Val(a) - Val(b)>>)
    ELSE Skipped(MissingKeys(required))

OptSub(a, b) == IF IsNone(a) \/ IsNone(b) THEN None ELSE Some(Val(a) - Val(b))

\* (mutant) the balance check given the absolute floor of the cash-flow check
BalanceSheetEq_AbsFloor(pd) ==
    LET assets == get_float(pd, "total_assets")
        liabs == get_float(pd, "total_liabilities")
        equity == get_float(pd, "total_equity")
        calculated_le == IF IsNone(liabs) \/ IsNone(equity) THEN None
                         ELSE Some(Val(liabs) + Val(equity))
    IN IdentityCheck(<<[key |-> "Total Assets", value |-> assets],
                       [key |-> "Total Liabilities", value |-> liabs],
                       [key |-> "Total Equity", value |-> equity]>>,
                     assets, calculated_le, BalanceRelTol, CashFlowAbsTol)

\* verifier.py:70-92
BalanceSheetEq(pd) ==
    LET assets == get_float(pd, "total_assets")
        liabs == get_float(pd, "total_liabilities")
        equity == get_float(pd, "total_equity")
        calculated_le == IF IsNone(liabs) \/ IsNone(equity) THEN None
                         ELSE Some(Val(liabs) + Val(equity))
    IN IdentityCheck(<<[key |-> "Total Assets", value |-> assets],
                       [key |-> "Total Liabilities", value |-> liabs],
                       [key |-> "Total Equity", value |-> equity]>>,
                     assets, calculated_le, BalanceRelTol, 0)

\* verifier.py:94-102
CashCheck(pd) ==
    LET cash == get_float(pd, "cash")
    IN IF ~IsNone(cash)
       THEN IF Val(cash) * CashFloor.den >= CashFloor.num THEN Passed
            ELSE Failed(<<Val(cash)>>)
       ELSE Skipped(<<"Cash">>)

\* verifier.py:104-121
GrossProfitCheck(pd) ==
    LET revenue == get_float(pd, "revenue")
        cogs == get_float(pd, "cost_of_revenue")
        gp == get_float(pd, "gross_profit")
    IN IdentityCheck(<<[key |-> "Revenue", value |-> revenue],
                       [key |-> "Cost of Revenue", value |-> cogs],
                       [key |-> "Gross Profit", value |-> gp]>>,
                     gp, OptSub(revenue, cogs), GrossProfitRelTol, 0)

\* (mutant) R&D + SG&A is preferred to the direct item when one of them is there
op_ex_total_ComponentsFirst(pd) ==
    LET rd == get_float(pd, "research_development")
        sga == get_float(pd, "selling_general_administrative")
    IN IF ~IsNone(rd) \/ ~IsNone(sga) THEN Some(OrZero(rd) + OrZero(sga))
       ELSE get_float(pd, "operating_expenses")

\* verifier.py:129-138  the operating-expenses operand
op_ex_total(pd) ==
    LET direct == get_float(pd, "operating_expenses")
        rd == get_float(pd, "research_development")
        sga == get_float(pd, "selling_general_administrative")
    IN IF ~IsNone(direct) THEN direct
       ELSE IF ~IsNone(rd) \/ ~IsNone(sga) THEN Some(OrZero(rd) + OrZero(sga))
       ELSE None

\* verifier.py:123-157
OperatingIncomeCheck(pd) ==
    LET op_inc == get_float(pd, "operating_income")
        gp == get_float(pd, "gross_profit")
        opex == op_ex_total(pd)
    IN IF ~IsNone(gp) /\ ~IsNone(op_inc) /\ ~IsNone(opex)
       THEN LET calculated_oi == Val(gp) - Val(opex)
            IN IF isclose(Val(op_inc), calculated_oi, OperatingIncomeRelTol, 0) THEN Passed
               ELSE Failed(<<Val(op_inc), calculated_oi, Val(op_inc) - calculated_oi>>)
       ELSE Skipped(MissingKeys(<<[key |-> "Gross Profit", value |-> gp],
                                  [key |-> "Operating Income", value |-> op_inc]>>)
                    \o (IF IsNone(opex)
                        THEN <<"Operating Expenses (Total or Components)">> ELSE <<>>))

\* verifier.py:159-176
NetIncomeCheck(pd) ==
    LET ni == get_float(pd, "net_income")
        ibt == get_float(pd, "income_before_tax")
        tax == get_float(pd, "income_tax_expense")
    IN IdentityCheck(<<[key |-> "Net Income", value |-> ni],
                       [key |-> "Income Before Tax", value |-> ibt],
                       [key |-> "Income Tax Expense", value |-> tax]>>,
                     ni, OptSub(ibt, tax), NetIncomeRelTol, 0)

\* verifier.py:178-198
CashFlowSumCheck(pd) ==
    LET change_cash == get_float(pd, "change_in_cash")
        op_cf == get_float(pd, "operating_cash_flow")
        inv_cf == get_float(pd, "investing_cash_flow")
        fin_cf == get_float(pd, "financing_cash_flow")
        sum_cf == IF IsNone(op_cf) \/ IsNone(inv_cf) \/ IsNone(fin_cf) THEN None
                  ELSE Some(Val(op_cf) + Val(inv_cf) + Val(fin_cf))
    IN IdentityCheck(<<[key |-> "Change in Cash", value |-> change_cash],
                       [key |-> "Operating CF", value |-> op_cf],
                       [key |-> "Investing CF", value |-> inv_cf],
                       [key |-> "Financing CF", value |-> fin_cf]>>,
                     change_cash, sum_cf, CashFlowRelTol, CashFlowAbsTol)

CheckNames == {"BalanceSheetEq", "CashCheck", "GrossProfitCheck",
               "OperatingIncomeCheck", "NetIncomeCheck", "CashFlowSumCheck"}

\* (mutant) no input validation: the six checks run on every input
verify_financial_consistency_NoValidation(pd) ==
    [c \in CheckNames |->
       CASE c = "BalanceSheetEq" -> BalanceSheetEq(pd)
         [] c = "CashCheck" -> CashCheck(pd)
         [] c = "GrossProfitCheck" -> GrossProfitCheck(pd)
         [] c = "OperatingIncomeCheck" -> OperatingIncomeCheck(pd)
         [] c = "NetIncomeCheck" -> NetIncomeCheck(pd)
         [] c = "CashFlowSumCheck" -> CashFlowSumCheck(pd)]

\* verifier.py:6-203  verify_financial_consistency
verify_financial_consistency(pd) ==
    IF pd.null \/ DOMAIN pd.data = {}                         \* verifier.py:29-41
    THEN [c \in {"InputValidation"} |-> Failed(<<>>)]
    ELSE [c \in CheckNames |->
            CASE c = "BalanceSheetEq" -> BalanceSheetEq(pd)
              [] c = "CashCheck" -> CashCheck(pd)
              [] c = "GrossProfitCheck" -> GrossProfitCheck(pd)
              [] c = "OperatingIncomeCheck" -> OperatingIncomeCheck(pd)
              [] c = "NetIncomeCheck" -> NetIncomeCheck(pd)
              [] c = "CashFlowSumCheck" -> CashFlowSumCheck(pd)]

\* the canonical items verify_financial_consistency reads
VerifierKeys == {"total_assets", "total_liabilities", "total_equity", "cash",
                 "revenue", "cost_of_revenue", "gross_profit", "operating_income",
                 "operating_expenses", "research_development",
                 "selling_general_administrative", "net_income", "income_before_tax",
                 "income_tax_expense", "change_in_cash", "operating_cash_flow",
                 "investing_cash_flow", "financing_cash_flow"}

(***************************************************************************)
(* src/analysis/ratios.py : calculate_sector_ratios                        *)
(***************************************************************************)
\* float arithmetic on quotients
FracAdd(a, b) == Quotient(a.num * b.den + b.num * a.den, a.den * b.den)
FracDivInt(a, n) == Quotient(a.num, a.den * n)
FracLeq(a, b) == a.num * b.den <= b.num * a.den

RECURSIVE FracSum(_)
FracSum(q) == IF Len(q) = 0 THEN Quotient(0, 1) ELSE FracAdd(Head(q), FracSum(Tail(q)))

RemoveAt(q, i) == [j \in 1..(Len(q) - 1) |-> IF j < i THEN q[j] ELSE q[j + 1]]

RECURSIVE SortAscending(_)
SortAscending(q) ==
    IF Len(q) = 0 THEN <<>>
    ELSE LET i == CHOOSE x \in DOMAIN q : \A y \in DOMAIN q : FracLeq(q[x], q[y])
         IN <<q[i]>> \o SortAscending(RemoveAt(q, i))

StatNames == {"Avg", "Median", "Min", "Max"}

\* (mutant) a company without the ratio counts with the value 0
NumericColumn_NoneAsZero(m, ratio_name) ==
    [i \in DOMAIN m |->
        IF ratio_name \in DOMAIN m[i].value /\ ~IsNone(m[i].value[ratio_name])
        THEN m[i].value[ratio_name] ELSE Some(Quotient(0, 1))]

\* ratios.py:219, 229-233  the column of one ratio, a row per company in dict
\* order: NaN where the company's dict lacks the ratio or holds None
NumericColumn(m, ratio_name) ==
    [i \in DOMAIN m |->
        IF ratio_name \in DOMAIN m[i].value THEN m[i].value[ratio_name] ELSE None]

NotNa(o) == ~IsNone(o)

\* ratios.py:235-247  the four statistics of one column, skipna=True
ColumnStat(numeric_column, stat) ==
    LET present == SelectSeq(numeric_column, NotNa)
        xs == SortAscending([i \in DOMAIN present |-> Val(present[i])])
        n == Len(xs)
    IN IF n = 0 THEN None
       ELSE CASE stat = "Avg" -> Some(FracDivInt(FracSum(xs), n))
              [] stat = "Median" ->
                    Some(IF n % 2 = 1 THEN xs[(n + 1) \div 2]
                         ELSE FracDivInt(FracAdd(xs[n \div 2], xs[n \div 2 + 1]), 2))
              [] stat = "Min" -> Some(xs[1])
              [] stat = "Max" -> Some(xs[n])

\* ratios.py:196-260  the result is keyed by <<ratio, stat>> for "<ratio>_<stat>";
\* an empty input and a frame without columns give the empty dict
calculate_sector_ratios(m) ==
    LET columns == UNION {DOMAIN m[i].value : i \in DOMAIN m}
    IN IF Len(m) = 0 \/ columns = {} THEN <<>>
       ELSE [k \in columns \X StatNames |-> ColumnStat(NumericColumn(m, k[1]), k[2])]

(***************************************************************************)
(* src/analysis/ratios.py : calculate_historical_ratios                    *)
(***************************************************************************)
\* ratios.py:168  standardized_data[period_col]: the column as a Series over
\* the whole index, NaN where the period lacks the item
ColumnSeries(m, period_col) ==
    [null |-> FALSE,
     data |-> [k \in m.items |->
                 IF <<k, period_col>> \in DOMAIN m.cell
                 THEN Some(m.cell[<<k, period_col>>]) ELSE None]]

\* ratios.py:161  None or an empty frame
NoFrame(m) == m.null \/ Len(m.columns) = 0 \/ m.items = {}

\* (mutant) a period is kept only if one of its ratios has a value
KeepPeriod_AnyPresent(period_ratios) ==
    \E r \in DOMAIN period_ratios : ~IsNone(period_ratios[r])

\* ratios.py:172  if period_ratios:
KeepPeriod(period_ratios) == DOMAIN period_ratios # {}

\* ratios.py:165-173  {period_col: period_ratios} in column order
RECURSIVE RatiosByPeriod(_, _, _)
RatiosByPeriod(m, arbp, j) ==
    IF j > Len(m.columns) THEN arbp
    ELSE LET period_ratios ==
                 calculate_single_period_ratios(ColumnSeries(m, m.columns[j]))
         IN RatiosByPeriod(m,
                IF KeepPeriod(period_ratios)
                THEN DictSet(arbp, m.columns[j], period_ratios) ELSE arbp,
                j + 1)

\* ratios.py:180  DataFrame.from_dict(all_ratios_by_period, orient='columns')
FromDictColumns(arbp) ==
    [null |-> FALSE,
     columns |-> [i \in DOMAIN arbp |-> arbp[i].key],
     items |-> UNION {DOMAIN arbp[i].value : i \in DOMAIN arbp},
     cell |-> [c \in UNION {{<<r, arbp[i].key>> :
                               r \in {x \in DOMAIN arbp[i].value : ~IsNone(arbp[i].value[x])}}
                            : i \in DOMAIN arbp}
                 |-> Val(DictGet(arbp, c[2])[c[1]])]]

\* ratios.py:182  ratio_df.reindex(columns=...): the given labels in the given
\* order, a label the frame lacks becoming an all-NaN column
Reindex(df, columns) ==
    [df EXCEPT !.columns = columns,
               !.cell = [c \in {x \in DOMAIN df.cell : x[2] \in Range(columns)} |-> df.cell[c]]]

\* ratios.py:145-189
calculate_historical_ratios(m) ==
    IF NoFrame(m) THEN NullMatrix
    ELSE LET all_ratios_by_period == RatiosByPeriod(m, <<>>, 1)
         IN IF Len(all_ratios_by_period) = 0 THEN NullMatrix
            ELSE Reindex(FromDictColumns(all_ratios_by_period), m.columns)

(***************************************************************************)
(* The raw statements a caller can pass: what the retrieval collaborator   *)
(* (extractor.get_financial_statements) hands over, bounded.               *)
(***************************************************************************)
MaxCells == 2          \* at most this many non-NaN cells over the three tables
MaxStray == 0          \* items a vector holds besides the inputs of one ratio / check

StatementKinds == <<"income", "balance", "cashflow">>

\* vendor row labels of each statement kind: the income statement lists two
\* synonyms of revenue against their declared preference order; "Net Income"
\* is a row of the income and of the cash-flow statement; "Goodwill" is a
\* label the vocabulary does not know
RowLabels(s) ==
    CASE s = 1 -> <<"Revenue", "Total Revenue", "Net Income">>
      [] s = 2 -> <<"Goodwill">>
      [] OTHER -> <<"Net Income">>
\* a cell that is not NaN holds a number n, written Some(n), or a value float()
\* rejects, such as the string "N/A", written Text
CellValues == {Some(0), Some(100), Text}
\* the values reported in statement s: text that is no number appears in the
\* income statement, the one that lists two synonyms of one item
ReportableValues(s) == IF s = 1 THEN CellValues ELSE CellValues \ {Text}

\* column labels of a table: a DatetimeIndex, or plain strings of which
\* the second is no date
ColumnLabels(shape) ==
    CASE shape = "dated" -> <<Ts(1), Ts(2)>>
      [] shape = "strings" -> <<Str(2), Str(0)>>
      [] OTHER -> <<Ts(2)>>
TableShapes == {"none", "empty", "dated", "strings"}
FullShapes == {"dated", "strings"}

\* the table of statement s before any value is reported: every cell NaN
BlankTable(shape, s) ==
    IF shape = "none" THEN NoDF
    ELSE [null |-> FALSE,
          dtindex |-> shape # "strings",
          index |-> IF shape = "empty" THEN <<>> ELSE RowLabels(s),
          cols |-> [j \in DOMAIN ColumnLabels(shape) |->
                      [label |-> ColumnLabels(shape)[j], cells |-> <<>>]]]

BlankStatements(shapes) ==
    [null |-> FALSE,
     entries |-> [s \in DOMAIN StatementKinds |->
                    [kind |-> StatementKinds[s], df |-> BlankTable(shapes[s], s)]]]

MapperInputs ==
    {NullInput, [null |-> FALSE, entries |-> <<>>]} \cup
    {BlankStatements(shapes) : shapes \in [DOMAIN StatementKinds -> TableShapes]}

\* number of non-NaN cells of the statements
RECURSIVE SumSeq(_)
SumSeq(q) == IF Len(q) = 0 THEN 0 ELSE Head(q) + SumSeq(Tail(q))
NonNaCount(st) ==
    SumSeq([s \in DOMAIN st.entries |->
              SumSeq([j \in DOMAIN st.entries[s].df.cols |->
                        Cardinality(DOMAIN st.entries[s].df.cols[j].cells)])])

\* cell (row i, column j) of statement s set to v
WithCell(st, s, j, i, v) ==
    [st EXCEPT !.entries[s].df.cols[j].cells =
        [r \in (DOMAIN @) \cup {i} |-> IF r = i THEN v ELSE @[r]]]

(***************************************************************************)
(* The three harnesses: each calls one entry point once on an input drawn  *)
(* by Init.                                                                *)
(***************************************************************************)
NullVector == [null |-> TRUE, data |-> <<>>]

MapperIdle ==
    /\ statements = NullInput /\ statements_in = NullInput
    /\ all_period_data = <<>> /\ standard_df = NullMatrix /\ pc_map = "idle"
    /\ first_df = NullMatrix
RatioIdle == period_data = NullVector /\ ratios = <<>> /\ pc_ratio = "idle"
VerifyIdle == verify_data = NullVector /\ results = <<>> /\ pc_verify = "idle"
HistIdle == ratio_df = NullMatrix /\ pc_hist = "idle"
AggIdle ==
    /\ all_company_latest_ratios = <<>> /\ sector_agg_ratios = <<>> /\ pc_agg = "idle"
\* main.py:297-299  the counters of the sector loop before its first iteration
NoSkips == [no_data |-> 0, standardize_fail |-> 0, ratio_fail |-> 0]
CountersZero == processed_count = 0 /\ skipped_count = 0 /\ skipped_reasons = NoSkips
MainIdle ==
    /\ sector_tickers = <<>> /\ ticker_ix = 0 /\ fetch_log = <<>>
    /\ calls = <<>> /\ pc_main = "idle"
    /\ CountersZero

\* the items of a vector that hold a value
PresentKeys(pd) == {k \in DOMAIN pd.data : ~IsNone(pd.data[k])}

\* item k of the vector set to the number v
WithItem(pd, k, v) ==
    [pd EXCEPT !.data = [x \in (DOMAIN @) \cup {k} |-> IF x = k THEN Some(v) ELSE @[x]]]

\* the present items lie in one group of keys, up to MaxStray items outside it
NearOneGroup(present, groups) ==
    \E g \in groups : Cardinality(present \ g) <= MaxStray

\* a vector as a dict that holds no key, and as a matrix column (a Series
\* over the keys) whose items are all NaN
EmptyDict == [null |-> FALSE, data |-> <<>>]
BlankSeries(keys) == [null |-> FALSE, data |-> [k \in keys |-> None]]

(* ---- ratio engine ---- *)
RatioItemValues == {-50, 0, 50, 100}

\* the canonical items each ratio is computed from (ratios.py:91-132)
RatioInputs(r) ==
    CASE r = "Gross Margin" -> {"gross_profit", "revenue"}
      [] r = "Net Margin" -> {"net_income", "revenue"}
      [] r = "Operating Margin" -> {"operating_income", "revenue"}
      [] r = "Current Ratio" -> {"current_assets", "current_liabilities"}
      [] r = "Quick Ratio" -> {"current_assets", "inventory", "current_liabilities"}
      [] r = "Debt to Equity" -> {"short_term_debt", "long_term_debt", "total_equity"}
      [] r = "Liabilities to Equity" -> {"total_liabilities", "total_equity"}
      [] r = "Debt Ratio" -> {"short_term_debt", "long_term_debt", "total_assets"}
      [] r = "Return on Equity (ROE)" -> {"net_income", "total_equity"}
      [] r = "Return on Assets (ROA)" -> {"net_income", "total_assets"}
      [] r = "Return on Capital Employed (ROCE)" ->
            {"operating_income", "total_assets", "current_liabilities"}
      [] r = "Inventory Turnover" -> {"cost_of_revenue", "inventory"}
      [] r = "Asset Turnover" -> {"revenue", "total_assets"}
      [] r = "Receivable Turnover" -> {"revenue", "accounts_receivable"}
RatioGroups == {RatioInputs(r) : r \in Range(RatioNames)}

InitRatios ==
    /\ period_data \in {NullVector, EmptyDict, BlankSeries(RatioKeys)}
    /\ ratios = <<>>
    /\ pc_ratio = "ready"
    /\ MapperIdle /\ VerifyIdle /\ HistIdle /\ AggIdle /\ MainIdle

\* the caller's vector gets one more item, before the call
SetRatioItem ==
    /\ pc_ratio = "ready"
    /\ ~period_data.null
    /\ \E k \in RatioKeys \ PresentKeys(period_data) : \E v \in RatioItemValues :
         /\ NearOneGroup(PresentKeys(period_data) \cup {k}, RatioGroups)
         /\ period_data' = WithItem(period_data, k, v)
    /\ UNCHANGED <<ratios, pc_ratio, mapperVars, verifyVars, histVars, aggVars, mainVars>>

\* the caller's vector gets one more item, a non-numeric one, before the call
SetRatioText ==
    /\ pc_ratio = "ready"
    /\ ~period_data.null
    /\ \E k \in RatioKeys \ PresentKeys(period_data) :
         /\ NearOneGroup(PresentKeys(period_data) \cup {k}, RatioGroups)
         /\ period_data' = [period_data EXCEPT !.data =
                               [x \in (DOMAIN @) \cup {k} |-> IF x = k THEN Text ELSE @[x]]]
    /\ UNCHANGED <<ratios, pc_ratio, mapperVars, verifyVars, histVars, aggVars, mainVars>>

\* a call of calculate_single_period_ratios(period_data)
ComputeRatios ==
    /\ pc_ratio = "ready"
    /\ pc_ratio' = IF EscapingError(period_data) THEN "raised" ELSE "done"
    /\ ratios' = IF EscapingError(period_data) THEN <<>>
                 ELSE calculate_single_period_ratios(period_data)
    /\ UNCHANGED <<period_data, mapperVars, verifyVars, histVars, aggVars, mainVars>>

NextRatios == SetRatioItem \/ SetRatioText \/ ComputeRatios

SpecRatios == InitRatios /\ [][NextRatios]_vars

(* ---- consistency verifier ---- *)
VerifierItemValues(k) ==
    CASE k = "total_assets" -> {1000, 0}
      [] k = "total_liabilities" -> {600, 0}
      [] k = "total_equity" -> {400, 300, 385, 384, 0}
      [] k = "cash" -> {-1, 0, 100}
      [] k = "revenue" -> {1000}
      [] k = "cost_of_revenue" -> {600}
      [] k = "gross_profit" -> {400, 404, 405}
      [] k = "operating_income" -> {100, 105, 106, 150}
      [] k = "operating_expenses" -> {300, 0}
      [] k = "research_development" -> {100, 0}
      [] k = "selling_general_administrative" -> {150}
      [] k = "net_income" -> {800, 812, 813}
      [] k = "income_before_tax" -> {1000}
      [] k = "income_tax_expense" -> {200}
      [] k = "change_in_cash" -> {100, 100000}
      [] k = "operating_cash_flow" -> {50, 1100, 1101, 96000, 97999, 98000}
      [] k = "investing_cash_flow" -> {30, 0}
      [] k = "financing_cash_flow" -> {10, 0}

\* the canonical items each check reads
CheckInputs(c) ==
    CASE c = "BalanceSheetEq" -> {"total_assets", "total_liabilities", "total_equity"}
      [] c = "CashCheck" -> {"cash"}
      [] c = "GrossProfitCheck" -> {"revenue", "cost_of_revenue", "gross_profit"}
      [] c = "OperatingIncomeCheck" ->
            {"gross_profit", "operating_income", "operating_expenses",
             "research_development", "selling_general_administrative"}
      [] c = "NetIncomeCheck" -> {"net_income", "income_before_tax", "income_tax_expense"}
      [] c = "CashFlowSumCheck" ->
            {"change_in_cash", "operating_cash_flow", "investing_cash_flow",
             "financing_cash_flow"}
CheckGroups == {CheckInputs(c) : c \in CheckNames}

InitVerifier ==
    /\ verify_data \in {NullVector, EmptyDict, BlankSeries(VerifierKeys)}
    /\ results = <<>>
    /\ pc_verify = "ready"
    /\ MapperIdle /\ RatioIdle /\ HistIdle /\ AggIdle /\ MainIdle

\* the caller's vector gets one more item, before the call
SetVerifyItem ==
    /\ pc_verify = "ready"
    /\ ~verify_data.null
    /\ \E k \in VerifierKeys \ PresentKeys(verify_data) : \E v \in VerifierItemValues(k) :
         /\ NearOneGroup(PresentKeys(verify_data) \cup {k}, CheckGroups)
         /\ verify_data' = WithItem(verify_data, k, v)
    /\ UNCHANGED <<results, pc_verify, mapperVars, ratioVars, histVars, aggVars, mainVars>>

\* a call of verify_financial_consistency(verify_data)
Verify ==
    /\ pc_verify = "ready"
    /\ pc_verify' = "done"
    /\ results' = verify_financial_consistency(verify_data)
    /\ UNCHANGED <<verify_data, mapperVars, ratioVars, histVars, aggVars, mainVars>>

NextVerifier == SetVerifyItem \/ Verify

SpecVerifier == InitVerifier /\ [][NextVerifier]_vars

InitMapper ==
    /\ statements \in MapperInputs
    /\ statements_in = statements
    /\ all_period_data = <<>>
    /\ standard_df = NullMatrix
    /\ pc_map = "ready"
    /\ first_df = NullMatrix
    /\ RatioIdle /\ VerifyIdle /\ HistIdle /\ AggIdle /\ MainIdle

\* the provider reports one more value of a statement, before the call
ReportValue ==
    /\ pc_map = "ready"
    /\ ~statements.null
    /\ NonNaCount(statements) < MaxCells
    /\ \E s \in DOMAIN statements.entries :
         \E j \in DOMAIN statements.entries[s].df.cols :
           \E i \in DOMAIN statements.entries[s].df.index :
             \E v \in ReportableValues(s) :
               /\ i \notin DOMAIN statements.entries[s].df.cols[j].cells
               /\ statements' = WithCell(statements, s, j, i, v)
    /\ statements_in' = statements'
    /\ UNCHANGED <<all_period_data, standard_df, pc_map, first_df, ratioVars, verifyVars,
                   histVars, aggVars, mainVars>>

\* a call of standardize_statements(statements)
Standardize ==
    /\ pc_map = "ready"
    /\ pc_map' = "done"
    /\ standard_df' = standardize_statements(statements)
    /\ all_period_data' = IF NoUsableStatements(statements) THEN <<>>
                          ELSE BuildAllPeriodData(statements)
    /\ statements' = StatementsAfterCall(statements)
    /\ UNCHANGED <<statements_in, first_df, ratioVars, verifyVars, histVars, aggVars, mainVars>>

\* a second call of standardize_statements, on the same dict object
StandardizeAgain ==
    /\ pc_map = "done"
    /\ pc_map' = "again"
    /\ first_df' = standard_df
    /\ standard_df' = standardize_statements(statements)
    /\ all_period_data' = IF NoUsableStatements(statements) THEN <<>>
                          ELSE BuildAllPeriodData(statements)
    /\ statements' = StatementsAfterCall(statements)
    /\ UNCHANGED <<statements_in, ratioVars, verifyVars, histVars, aggVars, mainVars>>

NextMapper == ReportValue \/ Standardize \/ StandardizeAgain

SpecMapper == InitMapper /\ [][NextMapper]_vars

(* ---- sector aggregator ---- *)
MaxEntities == 3       \* companies of a sector

AggTickers == <<"AAPL", "MSFT", "NVDA", "ORCL", "IBM">>
AggRatioNames == {"Net Margin", "Current Ratio"}
AggValues == {None, Some(Quotient(1, 10)), Some(Quotient(3, 10))}
\* one company's ratio dict: each ratio missing, None or a float
AggVectors == UNION {[names -> AggValues] : names \in SUBSET AggRatioNames}

InitAggregator ==
    /\ all_company_latest_ratios = <<>>
    /\ sector_agg_ratios = <<>>
    /\ pc_agg = "ready"
    /\ MapperIdle /\ RatioIdle /\ VerifyIdle /\ HistIdle /\ MainIdle

\* the caller's map gets one more company, before the call
AddEntity ==
    /\ pc_agg = "ready"
    /\ Len(all_company_latest_ratios) < MaxEntities
    /\ \E vec \in AggVectors :
         all_company_latest_ratios' =
            Append(all_company_latest_ratios,
                   [key |-> AggTickers[Len(all_company_latest_ratios) + 1], value |-> vec])
    /\ UNCHANGED <<sector_agg_ratios, pc_agg, mapperVars, ratioVars, verifyVars,
                   histVars, mainVars>>

\* a call of calculate_sector_ratios(all_company_latest_ratios)
Aggregate ==
    /\ pc_agg = "ready"
    /\ pc_agg' = "done"
    /\ sector_agg_ratios' = calculate_sector_ratios(all_company_latest_ratios)
    /\ UNCHANGED <<all_company_latest_ratios, mapperVars, ratioVars, verifyVars,
                   histVars, mainVars>>

NextAggregator == AddEntity \/ Aggregate

SpecAggregator == InitAggregator /\ [][NextAggregator]_vars

(* ---- historical ratios ---- *)
MaxPeriods == 2        \* period columns of a standardized matrix

HistItems == {"revenue", "net_income", "total_assets"}
HistValues == {0, 100}
EmptyMatrix == [null |-> FALSE, columns |-> <<>>, items |-> {}, cell |-> <<>>]

\* the matrix with item k of period d set to v: a standardized matrix keeps
\* its periods distinct and descending (mapper.py:134-137)
WithMatrixCell(m, k, d, v) ==
    [null |-> FALSE,
     columns |-> SortDescending(Range(m.columns) \cup {d}),
     items |-> m.items \cup {k},
     cell |-> [c \in (DOMAIN m.cell) \cup {<<k, d>>} |->
                 IF c = <<k, d>> THEN v ELSE m.cell[c]]]

InitHistory ==
    /\ standard_df \in {NullMatrix, EmptyMatrix}
    /\ ratio_df = NullMatrix
    /\ pc_hist = "ready"
    /\ statements = NullInput /\ statements_in = NullInput /\ all_period_data = <<>>
    /\ pc_map = "idle" /\ first_df = NullMatrix
    /\ RatioIdle /\ VerifyIdle /\ AggIdle /\ MainIdle

\* the normalizer resolved one more item of one period, before the call
SetMatrixCell ==
    /\ pc_hist = "ready"
    /\ \E k \in HistItems : \E d \in 1..MaxPeriods : \E v \in HistValues :
         /\ <<k, d>> \notin DOMAIN standard_df.cell
         /\ standard_df' = WithMatrixCell(standard_df, k, d, v)
    /\ UNCHANGED <<statements, statements_in, all_period_data, pc_map, first_df,
                   ratio_df, pc_hist, ratioVars, verifyVars, aggVars, mainVars>>

\* a call of calculate_historical_ratios(standard_df)
HistoricalRatios ==
    /\ pc_hist = "ready"
    /\ pc_hist' = "done"
    /\ ratio_df' = calculate_historical_ratios(standard_df)
    /\ UNCHANGED <<mapperVars, ratioVars, verifyVars, aggVars, mainVars>>

NextHistory == SetMatrixCell \/ HistoricalRatios

SpecHistory == InitHistory /\ [][NextHistory]_vars

(***************************************************************************)
(* src/data_extraction/extractor.py : get_financial_statements             *)
(***************************************************************************)
\* extractor.py:24, 65  {'income': None, 'balance': None, 'cashflow': None}
AllNone ==
    [null |-> FALSE,
     entries |-> [s \in DOMAIN StatementKinds |-> [kind |-> StatementKinds[s], df |-> NoDF]]]

\* extractor.py:24-65  vendor is what the provider does for one ticker: it
\* raises, or hands over three tables, each possibly None or empty
get_financial_statements(vendor) ==
    IF vendor.raises THEN AllNone                                   \* extractor.py:63-65
    ELSE [null |-> FALSE,
          entries |-> [s \in DOMAIN StatementKinds |->
             LET df == vendor.tables[s]
             IN [kind |-> StatementKinds[s],
                 df |-> IF df.null \/ DfEmpty(df) THEN NoDF          \* extractor.py:42-44
                        ELSE IF df.dtindex THEN df
                        ELSE DropAllNaColumns(CoerceColumns(df))]]]  \* extractor.py:48-52

(***************************************************************************)
(* src/main.py : analyze_company and analyze_sector                        *)
(***************************************************************************)
MaxTickers == 2        \* tickers of the sector in the map file

\* cell (row i, column j) of a table set to v
DfWithCell(df, j, i, v) ==
    [df EXCEPT !.cols[j].cells = [r \in (DOMAIN @) \cup {i} |-> IF r = i THEN v ELSE @[r]]]

VendorRaises == [raises |-> TRUE, tables |-> <<NoDF, NoDF, NoDF>>]
VendorTables(income, balance, cashflow) ==
    [raises |-> FALSE, tables |-> <<income, balance, cashflow>>]

\* a balance sheet that does not balance, 1000 against 600 + 300, with cash 100
UnbalancedSheet ==
    [null |-> FALSE, dtindex |-> TRUE,
     index |-> <<"Total Assets", "Total Liab", "Total Stockholder Equity", "Cash">>,
     cols |-> <<[label |-> Ts(2), cells |-> <<Some(1000), Some(600), Some(300), Some(100)>>]>>]

\* what the provider can do for a ticker
VendorOutcomes ==
    { VendorRaises,
      VendorTables(NoDF, NoDF, NoDF),
      VendorTables(BlankTable("empty", 1), NoDF, NoDF),
      \* only a label the vocabulary does not know
      VendorTables(NoDF, DfWithCell(BlankTable("dated", 2), 2, 1, Some(100)), NoDF),
      \* revenue 100 and net income 100 in the latest period
      VendorTables(DfWithCell(DfWithCell(BlankTable("dated", 1), 2, 2, Some(100)),
                              2, 3, Some(100)),
                   NoDF, NoDF),
      \* revenue alone: no ratio can be computed
      VendorTables(DfWithCell(BlankTable("dated", 1), 2, 2, Some(100)), NoDF, NoDF),
      VendorTables(NoDF, UnbalancedSheet, NoDF),
      \* two periods, the earlier one in the first column of the table: revenue
      \* 100 and net income 0 in the earlier, 100 and 100 in the later
      VendorTables(DfWithCell(DfWithCell(DfWithCell(DfWithCell(BlankTable("dated", 1),
                       1, 2, Some(100)), 1, 3, Some(0)), 2, 2, Some(100)), 2, 3, Some(100)),
                   NoDF, NoDF),
      \* period labels given as strings; revenue 100 and net income 0
      VendorTables(DfWithCell(DfWithCell(BlankTable("strings", 1), 1, 2, Some(100)),
                              1, 3, Some(0)),
                   NoDF, NoDF) }

MainTickers == {"AAPL", "aapl", "MSFT"}
TickerLists == UNION {[1..n -> MainTickers] : n \in 1..MaxTickers}

\* str.upper() of a ticker (main.py:80, 329)
Upper(ticker) == IF ticker = "aapl" THEN "AAPL" ELSE ticker

\* (mutant) a ticker without data is not skipped
SectorNoData_Never(st) == FALSE

\* main.py:305  not statements or all(df is None or df.empty ...)
SectorNoData(st) == NoUsableStatements(st)

\* main.py:87
CompanyNoData(st) == NoUsableStatements(st)

\* (mutant) a null matrix is passed on
StandardizeFailed_Never(df) == FALSE

\* main.py:94, 312-322  standard_df is None or standard_df.empty
StandardizeFailed(df) == NoFrame(df)

\* (mutant) the last column of the matrix
LatestPeriod_LastColumn(df) ==
    IF NoFrame(df) THEN NullVector ELSE ColumnSeries(df, df.columns[Len(df.columns)])

\* main.py:106, 324  standard_df.iloc[:, 0]
LatestPeriod(df) ==
    IF NoFrame(df) THEN NullVector ELSE ColumnSeries(df, df.columns[1])

\* main.py:112-120
has_failures(verification_results) ==
    \E c \in DOMAIN verification_results : verification_results[c].status = "Failed"

\* (mutant) a report with failures ends the command
AfterVerification_StopOnFailure(verification_results) ==
    IF has_failures(verification_results) THEN "exit1" ELSE "company_verified"

\* main.py:121-128  failures only print a note; the ratios come next
AfterVerification(verification_results) == "company_verified"

\* (mutant) any returned dict of ratios counts, all-absent or not
AnyRatio_AnyDict(latest_ratios) == DOMAIN latest_ratios # {}

\* main.py:328  latest_ratios and any(v is not None ...)
AnyRatio(latest_ratios) ==
    \E r \in DOMAIN latest_ratios : ~IsNone(latest_ratios[r])

\* main.py:301  the for loop has run through sector_tickers
LoopFinished(ix, tickers) == ix >= Len(tickers)

\* one invocation of a component: for which list position (0: the company
\* command) and whether it reported failure (no data / None)
Call(fn, ix, failed) == [fn |-> fn, ix |-> ix, failed |-> failed]

mainFixed == <<pc_map, first_df, pc_ratio, pc_verify, pc_hist, pc_agg, sector_tickers>>
counters == <<processed_count, skipped_count, skipped_reasons>>

\* (mutant) the reason is counted, the total of skipped entities is not
Skip_ReasonOnly(reason) ==
    /\ skipped_reasons' = [skipped_reasons EXCEPT ![reason] = @ + 1]
    /\ UNCHANGED <<processed_count, skipped_count>>

\* main.py:307-308, 314-315, 320-321, 334-335  one more entity skipped for `reason`
Skip(reason) ==
    /\ skipped_count' = skipped_count + 1
    /\ skipped_reasons' = [skipped_reasons EXCEPT ![reason] = @ + 1]
    /\ UNCHANGED processed_count

InitMain ==
    /\ \/ pc_main = "company" /\ sector_tickers = <<>>
       \/ pc_main = "sector_next" /\ sector_tickers \in TickerLists
    /\ ticker_ix = 0 /\ fetch_log = <<>> /\ calls = <<>>
    /\ CountersZero
    /\ MapperIdle /\ RatioIdle /\ VerifyIdle /\ HistIdle /\ AggIdle

\* main.py:84-89
CompanyFetch ==
    /\ pc_main = "company"
    /\ \E vendor \in VendorOutcomes :
         LET st == get_financial_statements(vendor)
         IN /\ statements' = st
            /\ statements_in' = st
            /\ fetch_log' = Append(fetch_log, st)
            /\ calls' = Append(calls, Call("fetch", 0, CompanyNoData(st)))
            /\ pc_main' = IF CompanyNoData(st) THEN "exit1" ELSE "company_fetched"
    /\ UNCHANGED <<all_period_data, standard_df, period_data, ratios, verify_data, results,
                   ratio_df, all_company_latest_ratios, sector_agg_ratios, ticker_ix,
                   mainFixed, counters>>

\* main.py:92-96
CompanyStandardize ==
    /\ pc_main = "company_fetched"
    /\ standard_df' = standardize_statements(statements)
    /\ all_period_data' = IF NoUsableStatements(statements) THEN <<>>
                          ELSE BuildAllPeriodData(statements)
    /\ statements' = StatementsAfterCall(statements)
    /\ calls' = Append(calls, Call("standardize", 0, NoFrame(standard_df')))
    /\ pc_main' = IF StandardizeFailed(standard_df') THEN "exit1" ELSE "company_standardized"
    /\ UNCHANGED <<statements_in, period_data, ratios, verify_data, results, ratio_df,
                   all_company_latest_ratios, sector_agg_ratios, ticker_ix, fetch_log,
                   mainFixed, counters>>

\* main.py:98-125
CompanyVerify ==
    /\ pc_main = "company_standardized"
    /\ verify_data' = LatestPeriod(standard_df)
    /\ results' = verify_financial_consistency(verify_data')
    /\ calls' = Append(calls, Call("verify", 0, has_failures(results')))
    /\ pc_main' = AfterVerification(results')
    /\ UNCHANGED <<statements, statements_in, all_period_data, standard_df, period_data,
                   ratios, ratio_df, all_company_latest_ratios, sector_agg_ratios,
                   ticker_ix, fetch_log, mainFixed, counters>>

\* main.py:128-132
CompanyRatios ==
    /\ pc_main = "company_verified"
    /\ ratio_df' = calculate_historical_ratios(standard_df)
    /\ calls' = Append(calls, Call("historical_ratios", 0, NoFrame(ratio_df')))
    /\ pc_main' = "company_done"
    /\ UNCHANGED <<statements, statements_in, all_period_data, standard_df, period_data,
                   ratios, verify_data, results, all_company_latest_ratios,
                   sector_agg_ratios, ticker_ix, fetch_log, mainFixed, counters>>

\* main.py:301-309  the next ticker of the list
SectorFetch ==
    /\ pc_main = "sector_next"
    /\ ~LoopFinished(ticker_ix, sector_tickers)
    /\ ticker_ix' = ticker_ix + 1
    /\ \E vendor \in VendorOutcomes :
         LET st == get_financial_statements(vendor)
         IN /\ statements' = st
            /\ statements_in' = st
            /\ fetch_log' = Append(fetch_log, st)
            /\ calls' = Append(calls, Call("fetch", ticker_ix', NoUsableStatements(st)))
            /\ pc_main' = IF SectorNoData(st) THEN "sector_next" ELSE "sector_fetched"
            /\ IF SectorNoData(st) THEN Skip("no_data") ELSE UNCHANGED counters
    /\ UNCHANGED <<all_period_data, standard_df, period_data, ratios, verify_data, results,
                   ratio_df, all_company_latest_ratios, sector_agg_ratios, mainFixed>>

\* main.py:311-322
SectorStandardize ==
    /\ pc_main = "sector_fetched"
    /\ standard_df' = standardize_statements(statements)
    /\ all_period_data' = IF NoUsableStatements(statements) THEN <<>>
                          ELSE BuildAllPeriodData(statements)
    /\ statements' = StatementsAfterCall(statements)
    /\ calls' = Append(calls, Call("standardize", ticker_ix, NoFrame(standard_df')))
    /\ pc_main' = IF StandardizeFailed(standard_df') THEN "sector_next"
                  ELSE "sector_standardized"
    /\ IF StandardizeFailed(standard_df') THEN Skip("standardize_fail")
       ELSE UNCHANGED counters
    /\ UNCHANGED <<statements_in, period_data, ratios, verify_data, results, ratio_df,
                   all_company_latest_ratios, sector_agg_ratios, ticker_ix, fetch_log,
                   mainFixed>>

\* main.py:324-335
SectorRatios ==
    /\ pc_main = "sector_standardized"
    /\ period_data' = LatestPeriod(standard_df)
    /\ ratios' = IF EscapingError(period_data') THEN <<>>
                 ELSE calculate_single_period_ratios(period_data')
    /\ calls' = Append(calls, Call("ratios", ticker_ix, ~AnyRatio(ratios')))
    /\ all_company_latest_ratios' =
          IF AnyRatio(ratios')
          THEN DictSet(all_company_latest_ratios, Upper(sector_tickers[ticker_ix]), ratios')
          ELSE all_company_latest_ratios
    /\ IF AnyRatio(ratios')
       THEN /\ processed_count' = processed_count + 1                \* main.py:331
            /\ UNCHANGED <<skipped_count, skipped_reasons>>
       ELSE Skip("ratio_fail")
    /\ pc_main' = "sector_next"
    /\ UNCHANGED <<statements, statements_in, all_period_data, standard_df, verify_data,
                   results, ratio_df, sector_agg_ratios, ticker_ix, fetch_log, mainFixed>>

\* main.py:338-347
SectorAggregate ==
    /\ pc_main = "sector_next"
    /\ LoopFinished(ticker_ix, sector_tickers)
    /\ IF Len(all_company_latest_ratios) = 0
       THEN /\ pc_main' = "exit0"
            /\ UNCHANGED <<sector_agg_ratios, calls>>
       ELSE /\ pc_main' = "sector_done"
            /\ sector_agg_ratios' = calculate_sector_ratios(all_company_latest_ratios)
            /\ calls' = Append(calls, Call("aggregate", ticker_ix,
                                           DOMAIN sector_agg_ratios' = {}))
    /\ UNCHANGED <<statements, statements_in, all_period_data, standard_df, period_data,
                   ratios, verify_data, results, ratio_df, all_company_latest_ratios,
                   ticker_ix, fetch_log, mainFixed, counters>>

NextMain ==
    \/ CompanyFetch \/ CompanyStandardize \/ CompanyVerify \/ CompanyRatios
    \/ SectorFetch \/ SectorStandardize \/ SectorRatios \/ SectorAggregate

SpecMain == InitMain /\ [][NextMain]_vars

(***************************************************************************)
(* Claims about the normalizer                                             *)
(***************************************************************************)
Min2(a, b) == IF a <= b THEN a ELSE b
RECURSIVE SetMin(_)
SetMin(S) == LET x == CHOOSE y \in S : TRUE
             IN IF S = {x} THEN x ELSE Min2(x, SetMin(S \ {x}))

\* the rows of table s reordered by the permutation perm of its row positions
PermuteRows(st, s, perm) ==
    LET df == st.entries[s].df
    IN [st EXCEPT
          !.entries[s].df.index = [i \in DOMAIN df.index |-> df.index[perm[i]]],
          !.entries[s].df.cols = [j \in DOMAIN df.cols |->
              [df.cols[j] EXCEPT !.cells =
                  [i \in {r \in DOMAIN df.index : perm[r] \in DOMAIN df.cols[j].cells}
                     |-> df.cols[j].cells[perm[i]]]]]]

\* the permutations of 1..n other than the identity
RowPermutations(n) ==
    {f \in [1..n -> 1..n] :
        /\ \A a, b \in 1..n : a # b => f[a] # f[b]
        /\ \E a \in 1..n : f[a] # a}

\* the value the matrix holds for item k in period d, None when it holds none
MatrixValue(m, k, d) == IF <<k, d>> \in DOMAIN m.cell THEN Some(m.cell[<<k, d>>]) ELSE None

\* C1 (as claimed): in every period, every canonical key gets the value of the
\* first of its synonyms, in declared order, that the period's merged raw bag
\* holds (absent when it holds none), and reordering the rows of the raw tables
\* changes nothing.
C1_FirstSynonymWins ==
    pc_map = "done" =>
        /\ \A p \in DOMAIN all_period_data : \A m \in DOMAIN FINANCIAL_ITEM_MAPPING :
             LET raw == all_period_data[p].value
                 syn == FINANCIAL_ITEM_MAPPING[m].value
                 held == {n \in DOMAIN syn : syn[n] \in DictKeys(raw)}
                 got == MatrixValue(standard_df, FINANCIAL_ITEM_MAPPING[m].key,
                                    all_period_data[p].key)
             IN IF held = {} THEN IsNone(got)
                ELSE got = DictGet(raw, syn[SetMin(held)])
        /\ \A s \in DOMAIN statements_in.entries :
             \A perm \in RowPermutations(Len(statements_in.entries[s].df.index)) :
                standardize_statements(PermuteRows(statements_in, s, perm)) = standard_df

\* the statements, in processing order, that carry a non-missing value for
\* vendor label lab in a column of period date d
Carriers(st, lab, d) ==
    {s \in DOMAIN st.entries :
        LET df == st.entries[s].df
        IN /\ ~df.null
           /\ \E j \in DOMAIN df.cols : \E i \in DOMAIN df.index :
                /\ to_datetime(df.cols[j].label) = Ts(d)
                /\ df.index[i] = lab
                /\ i \in DOMAIN df.cols[j].cells}

CarriedValue(st, s, lab, d) ==
    LET df == st.entries[s].df
        j == CHOOSE c \in DOMAIN df.cols : to_datetime(df.cols[c].label) = Ts(d)
        i == CHOOSE r \in DOMAIN df.index : df.index[r] = lab /\ r \in DOMAIN df.cols[j].cells
    IN df.cols[j].cells[i]

\* C2 (as claimed): the raw bag keeps, for every vendor label and period, the
\* value of the statement processed first among those that carry it.
C2_FirstStatementWins ==
    pc_map = "done" =>
        \A p \in DOMAIN all_period_data :
            LET raw == all_period_data[p].value
                d == all_period_data[p].key
            IN \A n \in DOMAIN raw :
                 DictGet(raw, raw[n].key)
                    = CarriedValue(statements_in, SetMin(Carriers(statements_in, raw[n].key, d)),
                                   raw[n].key, d)

\* some cell of the input can resolve: a non-missing value, under a label the
\* vocabulary knows, in a column whose label is a date
KnownLabels == UNION {Range(FINANCIAL_ITEM_MAPPING[m].value) : m \in DOMAIN FINANCIAL_ITEM_MAPPING}
SomethingResolves(st) ==
    /\ ~st.null
    /\ \E s \in DOMAIN st.entries :
         LET df == st.entries[s].df
         IN /\ ~df.null
            /\ \E j \in DOMAIN df.cols : \E i \in DOMAIN df.index :
                 /\ to_datetime(df.cols[j].label).type = "Timestamp"
                 /\ df.index[i] \in KnownLabels
                 /\ i \in DOMAIN df.cols[j].cells

\* C3: the result is null for a null input, an input with no tables, an input
\* whose tables are all null or empty, and an input in which no canonical item
\* resolves in any period; a non-null result has at least one period and one item.
C3_NullNotEmptyMatrix ==
    pc_map = "done" =>
        /\ (NoUsableStatements(statements_in) \/ ~SomethingResolves(statements_in))
              => standard_df.null
        /\ ~standard_df.null => Len(standard_df.columns) > 0 /\ standard_df.items # {}

\* C3 witness: tables with values, none under a known label in a dated column,
\* and a null result.
C3_Witness ==
    /\ pc_map = "done"
    /\ ~NoUsableStatements(statements_in)
    /\ NonNaCount(statements_in) > 0
    /\ ~SomethingResolves(statements_in)
    /\ standard_df.null

\* some statement holds, in a column of date d and under a synonym of item k,
\* a value that is no number
UnreadableFor(st, k, d) ==
    \E s \in DOMAIN st.entries :
        LET df == st.entries[s].df
        IN \E j \in DOMAIN df.cols : \E i \in DOMAIN df.cols[j].cells :
             /\ to_datetime(df.cols[j].label) = Ts(d)
             /\ df.index[i] \in Range(DictGet(FINANCIAL_ITEM_MAPPING, k))
             /\ ~IsNumber(df.cols[j].cells[i])
\* the items a non-missing cell (row i, column j, of date d) of table df is a
\* synonym of and whose values of that date are all numbers
ReadableKeys(st, df, j, i, d) ==
    IF ~(to_datetime(df.cols[j].label) = Ts(d) /\ i \in DOMAIN df.cols[j].cells) THEN {}
    ELSE {k \in DictKeys(FINANCIAL_ITEM_MAPPING) :
            /\ df.index[i] \in Range(DictGet(FINANCIAL_ITEM_MAPPING, k))
            /\ ~UnreadableFor(st, k, d)}
\* the period dates the matrix holds a value for
ValueDates(m) == {c[2] : c \in DOMAIN m.cell}

\* the statements that carry a value that resolves in period d: a non-missing
\* value, under a label the vocabulary knows, in a column whose label is or
\* parses to the date d
ResolvingCell(df, j, i, d) ==
    /\ to_datetime(df.cols[j].label) = Ts(d)
    /\ i \in DOMAIN df.cols[j].cells
    /\ df.index[i] \in KnownLabels
Resolving(st, d) ==
    {s \in DOMAIN st.entries :
        LET df == st.entries[s].df
        IN \E j \in DOMAIN df.cols : \E i \in DOMAIN df.index : ResolvingCell(df, j, i, d)}
InputDates(st) ==
    UNION {{to_datetime(st.entries[s].df.cols[j].label).date :
               j \in DOMAIN st.entries[s].df.cols} : s \in DOMAIN st.entries} \ {0}

\* C18: the columns of a non-null matrix are period dates in strictly descending
\* order (hence distinct); they are the dates the matrix holds a value for,
\* each a date in which some statement carries a value under a known label;
\* each date has exactly one column, and every value of that date, from whatever
\* statement, under a synonym of an item whose values of that date are all
\* numbers makes that item present in that column.
C18_DistinctDescendingPeriods ==
    (pc_map = "done" /\ ~standard_df.null) =>
        LET columns == standard_df.columns
        IN /\ \A a, b \in DOMAIN columns : a < b => columns[a] > columns[b]
           /\ \A c \in DOMAIN standard_df.cell : c[2] \in Range(columns)
           /\ Range(columns) = ValueDates(standard_df)
           /\ Range(columns) \subseteq
                 {d \in InputDates(statements_in) : Resolving(statements_in, d) # {}}
           /\ \A d \in Range(columns) :
                Cardinality({n \in DOMAIN columns : columns[n] = d}) = 1
           /\ \A d \in InputDates(statements_in) :
                \A s \in DOMAIN statements_in.entries :
                   LET df == statements_in.entries[s].df
                   IN \A j \in DOMAIN df.cols : \A i \in DOMAIN df.index :
                        \A k \in ReadableKeys(statements_in, df, j, i, d) :
                           <<k, d>> \in DOMAIN standard_df.cell

\* C18 witness: two statements carry resolving values for the same date, one
\* under a string label and one under a timestamp, and the matrix has the one
\* column of that date with an item from each.
C18_Witness ==
    /\ pc_map = "done"
    /\ ~standard_df.null
    /\ \E d \in InputDates(statements_in) :
         /\ standard_df.columns = <<d>>
         /\ Cardinality(Resolving(statements_in, d)) = 2
         /\ Cardinality(standard_df.items) = 2
         /\ \E s, t \in Resolving(statements_in, d) :
              /\ ~statements_in.entries[s].df.dtindex
              /\ statements_in.entries[t].df.dtindex

\* the column labels, row labels and values of the tables of the statements
TableContents(st) ==
    [s \in DOMAIN st.entries |->
        [index |-> st.entries[s].df.index,
         labels |-> [j \in DOMAIN st.entries[s].df.cols |-> st.entries[s].df.cols[j].label],
         values |-> [j \in DOMAIN st.entries[s].df.cols |-> st.entries[s].df.cols[j].cells]]]

\* C19 (as claimed): after the call every raw statement table has the period
\* column labels, the row labels and the values it had before the call.
C19_InputUnchanged ==
    pc_map = "done" => TableContents(statements) = TableContents(statements_in)

\* C20: a second call returns what the first call returned, both on the dict
\* the first call was given (whose string column labels the first call has
\* replaced) and on a dict equal to the one the first call was given; the
\* second call changes nothing more in the caller's tables.
C20_SecondCallSameResult ==
    pc_map = "again" =>
        /\ standard_df = first_df
        /\ standardize_statements(statements_in) = first_df
        /\ standardize_statements(statements) = first_df
        /\ StatementsAfterCall(statements) = statements

\* C20 witness: two calls on a dict with a string-labelled table, whose labels
\* the first call replaced, and a matrix with a value returned both times.
C20_Witness ==
    /\ pc_map = "again"
    /\ ~first_df.null
    /\ ~standard_df.null
    /\ DOMAIN standard_df.cell # {}
    /\ TableContents(statements) # TableContents(statements_in)
    /\ \E s \in DOMAIN statements_in.entries :
         /\ ~statements_in.entries[s].df.dtindex
         /\ \E d \in Range(first_df.columns) : s \in Resolving(statements_in, d)

\* the vendor labels canonical item k is looked up under
SynonymsOf(k) == Range(DictGet(FINANCIAL_ITEM_MAPPING, k))
CanonicalKeys == DictKeys(FINANCIAL_ITEM_MAPPING)

\* a non-missing value v under a synonym of item k in a column of date d
RawValueFor(st, k, d, v) ==
    \E s \in DOMAIN st.entries :
        LET df == st.entries[s].df
        IN \E j \in DOMAIN df.cols : \E i \in DOMAIN df.cols[j].cells :
             /\ to_datetime(df.cols[j].label) = Ts(d)
             /\ df.index[i] \in SynonymsOf(k)
             /\ df.cols[j].cells[i] = Some(v)

\* C22 (as claimed): every non-missing raw value under a synonym of a canonical item makes
\* that item present in the value's period, a zero included; every present
\* item of the matrix carries a raw value found under one of its synonyms in
\* that period, so an item no synonym resolves is absent and never a zero.
C22_PresentIffResolved ==
    pc_map = "done" =>
        /\ \A s \in DOMAIN statements_in.entries :
             LET df == statements_in.entries[s].df
             IN \A j \in DOMAIN df.cols : \A i \in DOMAIN df.cols[j].cells :
                  LET label == to_datetime(df.cols[j].label)
                  IN label.type = "Timestamp" =>
                       \A k \in CanonicalKeys :
                          df.index[i] \in SynonymsOf(k) =>
                             /\ ~standard_df.null
                             /\ <<k, label.date>> \in DOMAIN standard_df.cell
        /\ \A c \in DOMAIN standard_df.cell :
             /\ c[1] \in CanonicalKeys
             /\ RawValueFor(statements_in, c[1], c[2], standard_df.cell[c])
        /\ standard_df.items = {c[1] : c \in DOMAIN standard_df.cell}

\* the statements without the tables that are null or empty and without the
\* columns whose label is no date
ParsedCol(c) == to_datetime(c.label).type = "Timestamp"
UsableEntry(e) == ~e.df.null /\ ~DfEmpty(e.df)
RemainingStatements(st) ==
    IF st.null THEN st
    ELSE [st EXCEPT !.entries =
            SelectSeq([s \in DOMAIN st.entries |->
                         [st.entries[s] EXCEPT !.df.cols = SelectSeq(@, ParsedCol)]],
                      UsableEntry)]

\* C23: the matrix returned equals the one obtained from the statements that
\* are neither null nor empty and the columns whose label is a date, alone;
\* and when one of those holds a value under a synonym of an item whose values
\* of that period are all numbers, the result is not null.
C23_UnusablePartsContributeNothing ==
    pc_map = "done" =>
        /\ standard_df = standardize_statements(RemainingStatements(statements_in))
        /\ (\E d \in InputDates(statements_in) : \E s \in DOMAIN statements_in.entries :
               LET df == statements_in.entries[s].df
               IN \E j \in DOMAIN df.cols : \E i \in DOMAIN df.index :
                    ReadableKeys(statements_in, df, j, i, d) # {})
              => ~standard_df.null

\* C23 witness: a null or empty table, and a table with a value in a column
\* whose label is no date, next to a value that resolves: a matrix is returned.
C23_Witness ==
    /\ pc_map = "done"
    /\ ~standard_df.null
    /\ \E s \in DOMAIN statements_in.entries : ~UsableEntry(statements_in.entries[s])
    /\ \E s \in DOMAIN statements_in.entries :
         LET df == statements_in.entries[s].df
         IN \E j \in DOMAIN df.cols : ~ParsedCol(df.cols[j]) /\ DOMAIN df.cols[j].cells # {}

\* C24: every column of a non-null matrix holds at least one present item, and
\* a period of the input in which no canonical item resolves has no column.
C24_NoAllAbsentColumn ==
    (pc_map = "done" /\ ~standard_df.null) =>
        /\ \A n \in DOMAIN standard_df.columns :
             \E k \in standard_df.items : <<k, standard_df.columns[n]>> \in DOMAIN standard_df.cell
        /\ \A d \in InputDates(statements_in) :
             Resolving(statements_in, d) = {} => d \notin Range(standard_df.columns)

\* C24 witness: the input has two period dates, a value resolves in one of
\* them only (the other holds a value under a label the vocabulary does not
\* know), and the matrix has the one column.
C24_Witness ==
    /\ pc_map = "done"
    /\ ~standard_df.null
    /\ Len(standard_df.columns) = 1
    /\ \E d \in InputDates(statements_in) :
         /\ d \notin Range(standard_df.columns)
         /\ \E p \in DOMAIN all_period_data :
              all_period_data[p].key = d /\ all_period_data[p].value # <<>>

(***************************************************************************)
(* Claims about the ratio engine                                           *)
(***************************************************************************)
Item(pd, k) == IF k \in DOMAIN pd.data /\ IsNumber(pd.data[k]) THEN pd.data[k] ELSE None
Diff(a, b) == IF IsNone(a) \/ IsNone(b) THEN None ELSE Some(Val(a) - Val(b))
\* a sum of two items in which a missing one counts as zero when the other is there
SumOfPresent(a, b) ==
    IF IsNone(a) /\ IsNone(b) THEN None
    ELSE Some((IF IsNone(a) THEN 0 ELSE Val(a)) + (IF IsNone(b) THEN 0 ELSE Val(b)))

\* the numerator and the denominator of each ratio, from the items of the vector
NumeratorOf(r, pd) ==
    CASE r = "Gross Margin" -> Item(pd, "gross_profit")
      [] r \in {"Net Margin", "Return on Equity (ROE)", "Return on Assets (ROA)"} ->
            Item(pd, "net_income")
      [] r \in {"Operating Margin", "Return on Capital Employed (ROCE)"} ->
            Item(pd, "operating_income")
      [] r = "Current Ratio" -> Item(pd, "current_assets")
      [] r = "Quick Ratio" -> Diff(Item(pd, "current_assets"), Item(pd, "inventory"))
      [] r \in {"Debt to Equity", "Debt Ratio"} ->
            SumOfPresent(Item(pd, "short_term_debt"), Item(pd, "long_term_debt"))
      [] r = "Liabilities to Equity" -> Item(pd, "total_liabilities")
      [] r = "Inventory Turnover" -> Item(pd, "cost_of_revenue")
      [] r \in {"Asset Turnover", "Receivable Turnover"} -> Item(pd, "revenue")

DenominatorOf(r, pd) ==
    CASE r \in {"Gross Margin", "Net Margin", "Operating Margin"} -> Item(pd, "revenue")
      [] r \in {"Current Ratio", "Quick Ratio"} -> Item(pd, "current_liabilities")
      [] r \in {"Debt to Equity", "Liabilities to Equity", "Return on Equity (ROE)"} ->
            Item(pd, "total_equity")
      [] r \in {"Debt Ratio", "Return on Assets (ROA)", "Asset Turnover"} ->
            Item(pd, "total_assets")
      [] r = "Return on Capital Employed (ROCE)" ->
            Diff(Item(pd, "total_assets"), Item(pd, "current_liabilities"))
      [] r = "Inventory Turnover" -> Item(pd, "inventory")
      [] r = "Receivable Turnover" -> Item(pd, "accounts_receivable")

\* the optional fraction q is the quotient n / d
IsQuotient(q, n, d) == ~IsNone(q) /\ Val(q).den > 0 /\ Val(q).num * d = n * Val(q).den

\* C4: each of the 14 ratios is absent exactly when its numerator is absent, its
\* denominator is absent or its denominator is zero, and is the quotient
\* numerator / denominator otherwise (a present 0 for a zero numerator).
C4_SafeDivisionRule ==
    pc_ratio = "done" =>
        /\ DOMAIN ratios = Range(RatioNames)
        /\ Len(RatioNames) = 14
        /\ \A r \in Range(RatioNames) :
             LET n == NumeratorOf(r, period_data)
                 d == DenominatorOf(r, period_data)
             IN IF IsNone(n) \/ IsNone(d) \/ d = Some(0)
                THEN IsNone(ratios[r])
                ELSE /\ IsQuotient(ratios[r], Val(n), Val(d))
                     /\ (Val(n) = 0 => ratios[r] = Some([num |-> 0, den |-> 1]))

\* C4 witness: a zero numerator over a non-zero denominator gives a present 0,
\* next to a ratio that is absent because an operand is missing.
C4_Witness ==
    /\ pc_ratio = "done"
    /\ NumeratorOf("Quick Ratio", period_data) = Some(0)
    /\ ~IsNone(Item(period_data, "current_liabilities"))
    /\ Item(period_data, "current_liabilities") # Some(0)
    /\ ratios["Quick Ratio"] = Some([num |-> 0, den |-> 1])
    /\ IsNone(ratios["Gross Margin"])

\* C5: Debt to Equity and Debt Ratio divide short_term_debt + long_term_debt,
\* a missing component counting as zero when the other is present; with both
\* components missing the total debt is absent and so are both ratios.
C5_TotalDebtComposite ==
    pc_ratio = "done" =>
        LET std == Item(period_data, "short_term_debt")
            ltd == Item(period_data, "long_term_debt")
            both_missing == IsNone(std) /\ IsNone(ltd)
            sum == (IF IsNone(std) THEN 0 ELSE Val(std)) + (IF IsNone(ltd) THEN 0 ELSE Val(ltd))
        IN \A c \in {<<"Debt to Equity", "total_equity">>, <<"Debt Ratio", "total_assets">>} :
             LET d == Item(period_data, c[2])
             IN /\ both_missing => IsNone(ratios[c[1]])
                /\ (~both_missing /\ ~IsNone(d) /\ d # Some(0))
                      => IsQuotient(ratios[c[1]], sum, Val(d))

\* C5 witness: only one debt component present, and Debt to Equity computed
\* from it alone.
C5_Witness ==
    /\ pc_ratio = "done"
    /\ Item(period_data, "short_term_debt") = Some(50)
    /\ IsNone(Item(period_data, "long_term_debt"))
    /\ Item(period_data, "total_equity") = Some(100)
    /\ ratios["Debt to Equity"] = Some([num |-> 1, den |-> 2])

\* C13: calculate_single_period_ratios never raises on a vector: an empty one and
\* one whose items are absent or non-numeric included, it returns a dict of
\* exactly the 14 ratio names, each a number or absent.
C13_RatiosNeverRaise ==
    (pc_ratio \notin {"idle", "ready"} /\ ~period_data.null) =>
        /\ pc_ratio = "done"
        /\ DOMAIN ratios = Range(RatioNames)
        /\ Cardinality(DOMAIN ratios) = 14
        /\ \A r \in DOMAIN ratios :
             IsNone(ratios[r]) \/ (IsNumber(ratios[r]) /\ Val(ratios[r]).den > 0)

\* C13 witness: a vector with a non-numeric inventory and numeric current
\* assets and liabilities: the call returns, quick ratio absent, current ratio 2.
C13_Witness ==
    /\ pc_ratio = "done"
    /\ "inventory" \in DOMAIN period_data.data /\ period_data.data["inventory"] = Text
    /\ Item(period_data, "current_assets") = Some(100)
    /\ Item(period_data, "current_liabilities") = Some(50)
    /\ DOMAIN ratios = Range(RatioNames)
    /\ ratios["Quick Ratio"] = None
    /\ ratios["Current Ratio"] = Some(Quotient(2, 1))

\* C21: the Quick Ratio is absent whenever inventory is absent (missing, NaN or
\* not a number), whatever current assets and current liabilities are; with
\* inventory present it is (current_assets - inventory) / current_liabilities.
C21_QuickRatioNeedsInventory ==
    pc_ratio = "done" =>
        LET ca == Item(period_data, "current_assets")
            inv == Item(period_data, "inventory")
            cl == Item(period_data, "current_liabilities")
        IN /\ IsNone(inv) => IsNone(ratios["Quick Ratio"])
           /\ (~IsNone(inv) /\ ~IsNone(ca) /\ ~IsNone(cl) /\ cl # Some(0))
                 => IsQuotient(ratios["Quick Ratio"], Val(ca) - Val(inv), Val(cl))

\* C21 witness: current assets and non-zero current liabilities present, no
\* inventory item at all: the Current Ratio is computed, the Quick Ratio absent.
C21_Witness ==
    /\ pc_ratio = "done"
    /\ Item(period_data, "current_assets") = Some(100)
    /\ Item(period_data, "current_liabilities") = Some(50)
    /\ IsNone(Item(period_data, "inventory"))
    /\ ("inventory" \in DOMAIN period_data.data => period_data.data["inventory"] = None)
    /\ ratios["Current Ratio"] = Some(Quotient(2, 1))
    /\ IsNone(ratios["Quick Ratio"])

(***************************************************************************)
(* Claims about the consistency verifier                                   *)
(***************************************************************************)
NonEmptyVector(pd) == ~pd.null /\ DOMAIN pd.data # {}

\* C6 (as claimed): every input, a null and an empty one included, gets a
\* report of exactly the six checks.
C6_AlwaysSixEntries ==
    pc_verify = "done" => DOMAIN results = CheckNames /\ Cardinality(DOMAIN results) = 6

\* C6 (amended): a vector that is neither null nor empty, one whose items are
\* all absent included, gets a report of exactly the six checks; a null or
\* empty vector gets the single entry InputValidation, Failed.
C6_SixEntriesUnlessNoInput ==
    pc_verify = "done" =>
        IF NonEmptyVector(verify_data)
        THEN DOMAIN results = CheckNames /\ Cardinality(DOMAIN results) = 6
        ELSE DOMAIN results = {"InputValidation"}
             /\ results["InputValidation"].status = "Failed"

\* C6 witness: a non-empty vector whose items are all absent, six entries,
\* every one Skipped.
C6_Witness ==
    /\ pc_verify = "done"
    /\ NonEmptyVector(verify_data)
    /\ PresentKeys(verify_data) = {}
    /\ DOMAIN results = CheckNames
    /\ \A c \in CheckNames : results[c].status = "Skipped"

\* the names, in the order the report lists them, of the required inputs of
\* check c that the vector does not hold
Name(pd, k, name) == IF IsNone(Item(pd, k)) THEN <<name>> ELSE <<>>
AbsentRequired(c, pd) ==
    CASE c = "BalanceSheetEq" ->
            Name(pd, "total_assets", "Total Assets")
            \o Name(pd, "total_liabilities", "Total Liabilities")
            \o Name(pd, "total_equity", "Total Equity")
      [] c = "CashCheck" -> Name(pd, "cash", "Cash")
      [] c = "GrossProfitCheck" ->
            Name(pd, "revenue", "Revenue") \o Name(pd, "cost_of_revenue", "Cost of Revenue")
            \o Name(pd, "gross_profit", "Gross Profit")
      [] c = "OperatingIncomeCheck" ->
            Name(pd, "gross_profit", "Gross Profit")
            \o Name(pd, "operating_income", "Operating Income")
            \o (IF /\ IsNone(Item(pd, "operating_expenses"))
                   /\ IsNone(Item(pd, "research_development"))
                   /\ IsNone(Item(pd, "selling_general_administrative"))
                THEN <<"Operating Expenses (Total or Components)">> ELSE <<>>)
      [] c = "NetIncomeCheck" ->
            Name(pd, "net_income", "Net Income")
            \o Name(pd, "income_before_tax", "Income Before Tax")
            \o Name(pd, "income_tax_expense", "Income Tax Expense")
      [] c = "CashFlowSumCheck" ->
            Name(pd, "change_in_cash", "Change in Cash")
            \o Name(pd, "operating_cash_flow", "Operating CF")
            \o Name(pd, "investing_cash_flow", "Investing CF")
            \o Name(pd, "financing_cash_flow", "Financing CF")

\* the vectors that differ from pd in one item k: k set to a number, made
\* NaN, or (in a dict that keeps another key) removed
OneItemChanged(pd, k) ==
    {WithItem(pd, k, v) : v \in VerifierItemValues(k)}
    \cup {[pd EXCEPT !.data = [x \in (DOMAIN @) \cup {k} |-> IF x = k THEN None ELSE @[x]]]}
    \cup (IF DOMAIN pd.data \ {k} # {}
          THEN {[pd EXCEPT !.data = [x \in (DOMAIN @) \ {k} |-> @[x]]]} ELSE {})

\* C7: on a non-empty vector every check is Passed, Failed or Skipped; it is
\* Skipped exactly when one of its required inputs is absent, and then names
\* exactly the absent ones; and its entry does not change when an item that is
\* none of its inputs is added, removed or changed.
C7_ChecksIndependentlyGated ==
    (pc_verify = "done" /\ NonEmptyVector(verify_data)) =>
        /\ \A c \in CheckNames :
            /\ results[c].status \in {"Passed", "Failed", "Skipped"}
            /\ (results[c].status = "Skipped") <=> (AbsentRequired(c, verify_data) # <<>>)
            /\ results[c].missing = AbsentRequired(c, verify_data)
        /\ \A k \in VerifierKeys :
             \A other \in OneItemChanged(verify_data, k) :
                LET changed == verify_financial_consistency(other)
                IN \A c \in CheckNames :
                     k \notin CheckInputs(c) => changed[c] = results[c]

\* C7 witness: the balance check Skipped for the one input it lacks.
C7_Witness ==
    /\ pc_verify = "done"
    /\ NonEmptyVector(verify_data)
    /\ ~IsNone(Item(verify_data, "total_assets"))
    /\ ~IsNone(Item(verify_data, "total_liabilities"))
    /\ results["BalanceSheetEq"] = Skipped(<<"Total Equity">>)

\* C8: with its four inputs present the cash-flow sum check is Passed exactly
\* when |change - sum| <= max(0.02 * max(|change|, |sum|), 1000) and Failed
\* otherwise; a difference of at most 1000 passes whatever the scale.
C8_CashFlowTolerance ==
    (pc_verify = "done" /\ NonEmptyVector(verify_data)
       /\ AbsentRequired("CashFlowSumCheck", verify_data) = <<>>) =>
        LET change == Val(Item(verify_data, "change_in_cash"))
            sum == Val(Item(verify_data, "operating_cash_flow"))
                   + Val(Item(verify_data, "investing_cash_flow"))
                   + Val(Item(verify_data, "financing_cash_flow"))
            diff == Abs(change - sum)
            within == diff * 100 <= Max2(2 * Max2(Abs(change), Abs(sum)), 1000 * 100)
        IN /\ results["CashFlowSumCheck"].status = (IF within THEN "Passed" ELSE "Failed")
           /\ (diff <= 1000 => results["CashFlowSumCheck"].status = "Passed")

\* C8 witness: Passed on the absolute tolerance alone, the difference being
\* more than 2% of the larger amount.
C8_Witness ==
    /\ pc_verify = "done"
    /\ Item(verify_data, "change_in_cash") = Some(100)
    /\ Item(verify_data, "operating_cash_flow") = Some(50)
    /\ Item(verify_data, "investing_cash_flow") = Some(30)
    /\ Item(verify_data, "financing_cash_flow") = Some(10)
    /\ results["CashFlowSumCheck"] = Passed

\* C9: with its three inputs present the balance check is Passed exactly when
\* |assets - (liabilities + equity)| <= 0.015 * max(|assets|, |liabilities + equity|),
\* with no absolute floor, and Failed otherwise; with one absent it is Skipped.
C9_BalanceTolerance ==
    (pc_verify = "done" /\ NonEmptyVector(verify_data)) =>
        IF AbsentRequired("BalanceSheetEq", verify_data) # <<>>
        THEN results["BalanceSheetEq"].status = "Skipped"
        ELSE LET assets == Val(Item(verify_data, "total_assets"))
                 le == Val(Item(verify_data, "total_liabilities"))
                       + Val(Item(verify_data, "total_equity"))
                 within == Abs(assets - le) * 1000 <= 15 * Max2(Abs(assets), Abs(le))
             IN results["BalanceSheetEq"].status = (IF within THEN "Passed" ELSE "Failed")

\* C9 witness: assets 1000 against 984, a difference far below 1000 and yet Failed.
C9_Witness ==
    /\ pc_verify = "done"
    /\ Item(verify_data, "total_assets") = Some(1000)
    /\ Item(verify_data, "total_liabilities") = Some(600)
    /\ Item(verify_data, "total_equity") = Some(384)
    /\ results["BalanceSheetEq"] = Failed(<<1000, 984, 16>>)

\* C10: the operating-expenses operand is the direct item whenever it is present;
\* only without it is it R&D + SG&A, a missing one counting as zero when the other
\* is present; with all three absent (or gross profit or operating income absent)
\* the check is Skipped; otherwise it is Passed exactly when
\* |operating_income - (gross_profit - operand)| <= 0.05 * max of the two magnitudes.
C10_OperatingExpensesFallback ==
    (pc_verify = "done" /\ NonEmptyVector(verify_data)) =>
        LET direct == Item(verify_data, "operating_expenses")
            rd == Item(verify_data, "research_development")
            sga == Item(verify_data, "selling_general_administrative")
            gp == Item(verify_data, "gross_profit")
            oi == Item(verify_data, "operating_income")
            operand == IF ~IsNone(direct) THEN direct ELSE SumOfPresent(rd, sga)
        IN IF IsNone(operand) \/ IsNone(gp) \/ IsNone(oi)
           THEN results["OperatingIncomeCheck"].status = "Skipped"
           ELSE LET expected == Val(gp) - Val(operand)
                    within == Abs(Val(oi) - expected) * 100
                                 <= 5 * Max2(Abs(Val(oi)), Abs(expected))
                IN results["OperatingIncomeCheck"].status
                      = (IF within THEN "Passed" ELSE "Failed")

\* C10 witness: the direct item, R&D and SG&A all present with different totals,
\* and the check decided on the direct item.
C10_Witness ==
    /\ pc_verify = "done"
    /\ Item(verify_data, "operating_expenses") = Some(300)
    /\ Item(verify_data, "research_development") = Some(100)
    /\ Item(verify_data, "selling_general_administrative") = Some(150)
    /\ Item(verify_data, "gross_profit") = Some(400)
    /\ Item(verify_data, "operating_income") = Some(100)
    /\ results["OperatingIncomeCheck"] = Passed

(***************************************************************************)
(* Claims about the sector aggregator                                      *)
(***************************************************************************)
\* the companies of map m that hold a number for ratio r
Holders(m, r) ==
    {i \in DOMAIN m : r \in DOMAIN m[i].value /\ ~IsNone(m[i].value[r])}

RECURSIVE SumOver(_, _, _)
SumOver(m, r, S) ==
    IF S = {} THEN Quotient(0, 1)
    ELSE LET i == CHOOSE x \in S : TRUE
         IN FracAdd(Val(m[i].value[r]), SumOver(m, r, S \ {i}))

\* the lower and the upper middle value of the holders' values
LowerMiddle(m, r, S) ==
    CHOOSE v \in {Val(m[i].value[r]) : i \in S} :
        /\ 2 * Cardinality({i \in S : FracLeq(Val(m[i].value[r]), v)}) >= Cardinality(S)
        /\ \A w \in {Val(m[i].value[r]) : i \in S} :
             2 * Cardinality({i \in S : FracLeq(Val(m[i].value[r]), w)}) >= Cardinality(S)
                => FracLeq(v, w)
UpperMiddle(m, r, S) ==
    CHOOSE v \in {Val(m[i].value[r]) : i \in S} :
        /\ 2 * Cardinality({i \in S : FracLeq(v, Val(m[i].value[r]))}) >= Cardinality(S)
        /\ \A w \in {Val(m[i].value[r]) : i \in S} :
             2 * Cardinality({i \in S : FracLeq(w, Val(m[i].value[r]))}) >= Cardinality(S)
                => FracLeq(w, v)

\* C11: for every ratio name in any company's vector the aggregator returns
\* Avg, Median, Min and Max over exactly the companies that hold a number for
\* that ratio (a company without it is left out of that ratio only, never
\* counted as 0); with no such company the four statistics are absent.
C11_StatsOverHolders ==
    pc_agg = "done" =>
        LET m == all_company_latest_ratios
            names == UNION {DOMAIN m[i].value : i \in DOMAIN m}
        IN /\ DOMAIN sector_agg_ratios = names \X StatNames
           /\ \A r \in names :
                LET S == Holders(m, r)
                    vals == {Val(m[i].value[r]) : i \in S}
                IN IF S = {}
                   THEN \A st \in StatNames : sector_agg_ratios[<<r, st>>] = None
                   ELSE /\ sector_agg_ratios[<<r, "Avg">>]
                              = Some(FracDivInt(SumOver(m, r, S), Cardinality(S)))
                        /\ sector_agg_ratios[<<r, "Median">>]
                              = Some(FracDivInt(FracAdd(LowerMiddle(m, r, S),
                                                        UpperMiddle(m, r, S)), 2))
                        /\ sector_agg_ratios[<<r, "Min">>] \in {Some(v) : v \in vals}
                        /\ sector_agg_ratios[<<r, "Max">>] \in {Some(v) : v \in vals}
                        /\ \A v \in vals :
                             /\ FracLeq(Val(sector_agg_ratios[<<r, "Min">>]), v)
                             /\ FracLeq(v, Val(sector_agg_ratios[<<r, "Max">>]))

\* C11 witness: three companies hold 0.1, nothing and 0.3 for one ratio, the
\* second still counting for another ratio: Avg = Median = 0.2, Min 0.1, Max 0.3.
C11_Witness ==
    /\ pc_agg = "done"
    /\ Len(all_company_latest_ratios) = 3
    /\ all_company_latest_ratios[1].value
          = [r \in {"Net Margin"} |-> Some(Quotient(1, 10))]
    /\ all_company_latest_ratios[2].value
          = [r \in AggRatioNames |->
               IF r = "Net Margin" THEN None ELSE Some(Quotient(3, 10))]
    /\ all_company_latest_ratios[3].value
          = [r \in {"Net Margin"} |-> Some(Quotient(3, 10))]
    /\ sector_agg_ratios[<<"Net Margin", "Avg">>] = Some(Quotient(1, 5))
    /\ sector_agg_ratios[<<"Net Margin", "Median">>] = Some(Quotient(1, 5))
    /\ sector_agg_ratios[<<"Net Margin", "Min">>] = Some(Quotient(1, 10))
    /\ sector_agg_ratios[<<"Net Margin", "Max">>] = Some(Quotient(3, 10))
    /\ sector_agg_ratios[<<"Current Ratio", "Avg">>] = Some(Quotient(3, 10))

(***************************************************************************)
(* Claims about the historical ratios                                      *)
(***************************************************************************)
\* one period of a matrix on its own: a dict of the items the period holds
ColumnAlone(m, d) ==
    [null |-> FALSE,
     data |-> [k \in {x \in m.items : <<x, d>> \in DOMAIN m.cell} |-> Some(m.cell[<<k, d>>])]]

\* the entry of a ratio frame, None for NaN
FrameValue(df, r, d) == IF <<r, d>> \in DOMAIN df.cell THEN Some(df.cell[<<r, d>>]) ELSE None

\* C12: for a non-empty standardized matrix calculate_historical_ratios returns
\* a frame with exactly the input's period columns in the input's order, a
\* period whose ratios are all absent included, and every column equals
\* calculate_single_period_ratios of that input column alone.
C12_ColumnwiseRatios ==
    (pc_hist = "done" /\ ~NoFrame(standard_df)) =>
        /\ ~ratio_df.null
        /\ ratio_df.columns = standard_df.columns
        /\ ratio_df.items = Range(RatioNames)
        /\ \A j \in DOMAIN standard_df.columns : \A r \in Range(RatioNames) :
             FrameValue(ratio_df, r, standard_df.columns[j])
               = calculate_single_period_ratios(
                     ColumnAlone(standard_df, standard_df.columns[j]))[r]

\* C12 witness: two periods, the later with a net margin, the earlier with no
\* ratio at all and still a column of the result.
C12_Witness ==
    /\ pc_hist = "done"
    /\ standard_df.columns = <<2, 1>>
    /\ ratio_df.columns = <<2, 1>>
    /\ FrameValue(ratio_df, "Net Margin", 2) = Some(Quotient(1, 1))
    /\ \A r \in Range(RatioNames) : FrameValue(ratio_df, r, 1) = None

(***************************************************************************)
(* Claims about the commands of main.py                                    *)
(***************************************************************************)
\* the invocations of component fn for list position i
CallsFor(i, fn) == {n \in DOMAIN calls : calls[n].ix = i /\ calls[n].fn = fn}

\* the map the loop of analyze_sector collects from a list of tickers and what
\* the fetch returned for each of them
RECURSIVE Collected(_, _, _, _)
Collected(tickers, fetched, map, i) ==
    IF i > Len(tickers) THEN map
    ELSE LET df == IF NoUsableStatements(fetched[i]) THEN NullMatrix
                   ELSE standardize_statements(fetched[i])
             vec == IF NoFrame(df) THEN <<>>
                    ELSE calculate_single_period_ratios(LatestPeriod(df))
         IN Collected(tickers, fetched,
                      IF NoFrame(df) \/ ~AnyRatio(vec) THEN map
                      ELSE DictSet(map, Upper(tickers[i]), vec),
                      i + 1)

SectorLoopOver == pc_main \in {"sector_done", "exit0"}

\* C14: in analyze_sector a ticker whose fetch fails, raises or returns no data
\* is skipped (nothing is normalized or computed for it), every other ticker is
\* still fetched, normalized and, its matrix not being null, ratio-computed, and
\* the collected map is the one the list without the failing ticker gives.
C14_FailedFetchIsolated ==
    SectorLoopOver =>
        /\ Len(fetch_log) = Len(sector_tickers)
        /\ \A i \in DOMAIN sector_tickers :
             /\ Cardinality(CallsFor(i, "fetch")) = 1
             /\ IF NoUsableStatements(fetch_log[i])
                THEN /\ CallsFor(i, "standardize") = {}
                     /\ CallsFor(i, "ratios") = {}
                     /\ all_company_latest_ratios
                           = Collected(RemoveAt(sector_tickers, i), RemoveAt(fetch_log, i),
                                       <<>>, 1)
                ELSE /\ Cardinality(CallsFor(i, "standardize")) = 1
                     /\ Cardinality(CallsFor(i, "ratios"))
                           = (IF NoFrame(standardize_statements(fetch_log[i])) THEN 0 ELSE 1)

\* C14 witness: the first of two tickers has no data, the second is processed
\* and is the one entry of the map.
C14_Witness ==
    /\ pc_main = "sector_done"
    /\ Len(sector_tickers) = 2
    /\ NoUsableStatements(fetch_log[1])
    /\ Len(all_company_latest_ratios) = 1
    /\ all_company_latest_ratios[1].key = Upper(sector_tickers[2])
    /\ CallsFor(2, "ratios") # {}

AggregateCalls == {n \in DOMAIN calls : calls[n].fn = "aggregate"}

\* the aggregator is invoked at most once, as the last invocation, once every
\* ticker of the list has been fetched; every entry of the map is a complete
\* ratio vector
AggregatedOnceAtTheEnd ==
    /\ Cardinality(AggregateCalls) <= 1
    /\ \A n \in AggregateCalls :
         /\ n = Len(calls)
         /\ pc_main = "sector_done"
         /\ ticker_ix = Len(sector_tickers)
         /\ \A i \in DOMAIN sector_tickers : CallsFor(i, "fetch") # {}
    /\ pc_main \in {"sector_fetched", "sector_standardized"} => AggregateCalls = {}
    /\ \A i \in DOMAIN all_company_latest_ratios :
         DOMAIN all_company_latest_ratios[i].value = Range(RatioNames)

\* a step leaves every entry of the map as it is
EntriesKept ==
    \A i \in DOMAIN all_company_latest_ratios :
        /\ i \in DOMAIN all_company_latest_ratios'
        /\ all_company_latest_ratios'[i] = all_company_latest_ratios[i]

\* C15 (as claimed): the aggregator is invoked at most once and only after every
\* ticker has been processed or skipped, every entry of the map is a complete
\* vector added in one step, and no entry is modified after it is added.
C15_NoEntryEverModified == [](AggregatedOnceAtTheEnd) /\ [][EntriesKept]_vars

\* C16: once standardize_statements has returned null for the company or for a
\* ticker of the sector, neither the verifier nor a ratio function is invoked
\* for it: analyze_company exits with an error, analyze_sector goes on to the
\* next ticker and the map gets no entry from that position.
C16_NullMatrixShortCircuits ==
    \A n \in DOMAIN calls :
        (calls[n].fn = "standardize" /\ calls[n].failed) =>
            /\ CallsFor(calls[n].ix, "verify") = {}
            /\ CallsFor(calls[n].ix, "historical_ratios") = {}
            /\ CallsFor(calls[n].ix, "ratios") = {}
            /\ calls[n].ix = 0 => (pc_main = "exit1" /\ n = Len(calls))
            /\ (calls[n].ix > 0 /\ n = Len(calls)) => pc_main \in {"sector_next", "exit0"}

\* C16 witness: analyze_company stopped after a normalization that resolved
\* nothing.
C16_Witness ==
    /\ pc_main = "exit1"
    /\ Len(calls) = 2
    /\ calls[1] = Call("fetch", 0, FALSE)
    /\ calls[2] = Call("standardize", 0, TRUE)
    /\ standard_df.null
    /\ results = <<>> /\ ratio_df.null

\* what an identity check compares: the reported value and the one computed
\* from the other items
ComparedPair(c, pd) ==
    CASE c = "BalanceSheetEq" ->
            <<Item(pd, "total_assets"),
              SumOfPresent(Item(pd, "total_liabilities"), Item(pd, "total_equity"))>>
      [] c = "GrossProfitCheck" ->
            <<Item(pd, "gross_profit"), Diff(Item(pd, "revenue"), Item(pd, "cost_of_revenue"))>>
      [] c = "OperatingIncomeCheck" ->
            <<Item(pd, "operating_income"),
              Diff(Item(pd, "gross_profit"),
                   IF ~IsNone(Item(pd, "operating_expenses")) THEN Item(pd, "operating_expenses")
                   ELSE SumOfPresent(Item(pd, "research_development"),
                                     Item(pd, "selling_general_administrative")))>>
      [] c = "NetIncomeCheck" ->
            <<Item(pd, "net_income"),
              Diff(Item(pd, "income_before_tax"), Item(pd, "income_tax_expense"))>>
      [] c = "CashFlowSumCheck" ->
            <<Item(pd, "change_in_cash"),
              IF IsNone(Item(pd, "investing_cash_flow")) \/ IsNone(Item(pd, "financing_cash_flow"))
                 \/ IsNone(Item(pd, "operating_cash_flow"))
              THEN None
              ELSE Some(Val(Item(pd, "operating_cash_flow")) + Val(Item(pd, "investing_cash_flow"))
                        + Val(Item(pd, "financing_cash_flow")))>>

\* C17: a Failed identity check is not escalated: the report still holds all six
\* checks, the Failed entry carries the reported value, the value computed from
\* the other items and their difference, and analyze_company goes on to the
\* historical ratios whatever the report says.
C17_FailedCheckNotEscalated ==
    CallsFor(0, "verify") # {} =>
        /\ DOMAIN results = CheckNames
        /\ \A c \in CheckNames \ {"CashCheck"} :
             results[c].status = "Failed" =>
                LET pair == ComparedPair(c, verify_data)
                IN results[c].detail
                      = <<Val(pair[1]), Val(pair[2]), Val(pair[1]) - Val(pair[2])>>
        /\ pc_main \in {"company_verified", "company_done"}
        /\ pc_main = "company_verified" => ENABLED CompanyRatios
        /\ pc_main = "company_done" =>
              calls[Len(calls)].fn = "historical_ratios"

\* C17 witness: the balance check failed, the cash check after it passed, and
\* the historical ratios were computed.
C17_Witness ==
    /\ pc_main = "company_done"
    /\ results["BalanceSheetEq"] = Failed(<<1000, 900, 100>>)
    /\ results["CashCheck"] = Passed
    /\ results["CashFlowSumCheck"].status = "Skipped"
    /\ ~ratio_df.null
    /\ FrameValue(ratio_df, "Liabilities to Equity", 2) = Some(Quotient(2, 1))

\* the number of calls of component fn that did (failed) or did not report failure
CountCalls(fn, failed) ==
    Cardinality({n \in DOMAIN calls : calls[n].fn = fn /\ calls[n].failed = failed})
InSectorLoop ==
    pc_main \in {"sector_next", "sector_fetched", "sector_standardized", "sector_done", "exit0"}
BetweenIterations == pc_main \in {"sector_next", "sector_done", "exit0"}

\* C27: between iterations of the sector loop processed_count + skipped_count
\* is the number of entities handled so far (inside an iteration the current
\* entity is not counted yet), skipped_count is the sum of the three reason
\* counters, and each counter is the number of entities that ended that way.
C27_CountersAccountForEveryEntity ==
    InSectorLoop =>
        /\ processed_count + skipped_count
              = IF BetweenIterations THEN ticker_ix ELSE ticker_ix - 1
        /\ skipped_count = skipped_reasons.no_data + skipped_reasons.standardize_fail
                              + skipped_reasons.ratio_fail
        /\ skipped_reasons.no_data = CountCalls("fetch", TRUE)
        /\ skipped_reasons.standardize_fail = CountCalls("standardize", TRUE)
        /\ skipped_reasons.ratio_fail = CountCalls("ratios", TRUE)
        /\ processed_count = CountCalls("ratios", FALSE)
        /\ CountCalls("fetch", TRUE) + CountCalls("fetch", FALSE) = ticker_ix

\* C27 witness: the loop has ended over two entities, one processed and one
\* skipped.
C27_Witness ==
    /\ pc_main = "sector_next"
    /\ ticker_ix = 2 /\ Len(sector_tickers) = 2
    /\ processed_count = 1
    /\ skipped_count = 1

\* the loop of main.py:301 has run through the sector list
SectorLoopEnded ==
    \/ pc_main = "sector_next" /\ LoopFinished(ticker_ix, sector_tickers)
    \/ pc_main \in {"sector_done", "exit0"}

\* C26 (as claimed): when the loop ends, processed_count is the number of
\* entities in the map handed to the aggregator, for every sector list.
C26_ProcessedCountIsMapSize ==
    SectorLoopEnded => processed_count = Len(all_company_latest_ratios)

\* the entries of the call log that are ratio computations of the sector loop
\* which yielded no present ratio
RatioFailures == {n \in DOMAIN calls : calls[n].fn = "ratios" /\ calls[n].failed}

\* C28: at every moment every vector of the map holds the 14 ratio names and
\* at least one present ratio; an entity whose ratios are all absent adds no
\* entry and is counted under ratio_fail.
C28_NoAllAbsentVectorInMap ==
    InSectorLoop =>
        /\ \A e \in DOMAIN all_company_latest_ratios :
             LET v == all_company_latest_ratios[e].value
             IN /\ DOMAIN v = Range(RatioNames)
                /\ \E r \in DOMAIN v : ~IsNone(v[r])
        /\ skipped_reasons.ratio_fail = Cardinality(RatioFailures)
        /\ Len(all_company_latest_ratios) <= CountCalls("ratios", FALSE)
        /\ (calls # <<>> /\ calls[Len(calls)].fn = "ratios" /\ calls[Len(calls)].failed)
              => /\ \A r \in DOMAIN ratios : IsNone(ratios[r])
                 /\ processed_count + skipped_count = ticker_ix

\* C28 witness: the loop has ended over two entities; the first yielded
\* ratios, the second a matrix from which no ratio can be computed; the map
\* holds the first alone.
C28_Witness ==
    /\ pc_main = "sector_next"
    /\ ticker_ix = 2 /\ Len(sector_tickers) = 2
    /\ Upper(sector_tickers[1]) # Upper(sector_tickers[2])
    /\ calls[Len(calls)].fn = "ratios" /\ calls[Len(calls)].failed
    /\ DOMAIN ratios = Range(RatioNames)
    /\ skipped_reasons.ratio_fail = 1
    /\ DictKeys(all_company_latest_ratios) = {Upper(sector_tickers[1])}

\* the greatest period date of a matrix
GreatestPeriod(df) == SetMax(Range(df.columns))
LastCall == calls[Len(calls)]

\* C25: the vector analyze_company has verified, and the vector whose ratios
\* analyze_sector has just computed for an entity, is the first column of the
\* standardized matrix, and that column is the one of the greatest period date.
C25_LatestPeriodIsFirstColumn ==
    /\ pc_main \in {"company_verified", "company_done"} =>
          /\ verify_data = ColumnSeries(standard_df, standard_df.columns[1])
          /\ standard_df.columns[1] = GreatestPeriod(standard_df)
    /\ (InSectorLoop /\ calls # <<>> /\ LastCall.fn = "ratios") =>
          /\ period_data = ColumnSeries(standard_df, standard_df.columns[1])
          /\ standard_df.columns[1] = GreatestPeriod(standard_df)
    /\ pc_main \in {"company_standardized", "sector_standardized"} =>
          \A n \in DOMAIN standard_df.columns :
             standard_df.columns[n] <= standard_df.columns[1]

\* C25 witness: the provider's table lists the earlier period first; the matrix
\* has two periods in which net income differs, and the ratios collected for
\* the entity are those of the later one.
C25_Witness ==
    /\ InSectorLoop /\ calls # <<>> /\ LastCall.fn = "ratios"
    /\ Len(standard_df.columns) = 2
    /\ LET earlier == ColumnSeries(standard_df, standard_df.columns[2])
       IN /\ period_data # earlier
          /\ ratios # calculate_single_period_ratios(earlier)
    /\ period_data = ColumnSeries(standard_df, GreatestPeriod(standard_df))
    /\ \E e \in DOMAIN all_company_latest_ratios :
         all_company_latest_ratios[e].value = ratios

====
